---- MODULE Spec2Model ----
(***************************************************************************)
(* Model of the edge application of akazar/vision: the detection loop, the *)
(* presence-window tracker that authorises automatic captures, and the     *)
(* render pass that maps, clamps and smooths bounding boxes.               *)
(*                                                                         *)
(* Times are integers in milliseconds (performance.now() sampled on a grid *)
(* of one second).  Pixel quantities are binary floating-point values, as   *)
(* the numbers of the JavaScript code are, with a bounded mantissa.         *)
(***************************************************************************)
EXTENDS Integers, Sequences, FiniteSets, TLC

\* ---------------------------------------------------------------- bounds
MaxTicks == 5           \* the clock of Spec runs over 0 .. MaxTicks seconds
MaxChains == 1          \* loop chains (scheduled, suspended or loading) alive at once
WatchTicks == 12        \* the clock of SpecWatch runs over 0 .. WatchTicks seconds
MaxRenders == 3         \* render passes in one behaviour of SpecRender
ScriptSeconds == 19     \* SpecScript follows a presence script for this many seconds
ScriptMaxStart == 4     \* SpecScript starts detection at half-second 1 .. ScriptMaxStart
MantissaBits == 10
CaptureTicks == 6
MaxCaptures == 1
MaxSmoothSteps == 24
RetryTicks == 10
MaxOverlap == 2         \* loop chains alive at once in the restart runs
OverlapTicks == 5       \* seconds of clock in the restart runs
MaxObserveCalls == 7    \* length of a run of direct observe calls      \* bits of the floating-point mantissa (a double has 53)

\* ------------------------------------------------------ program constants
MsPerSecond == 1000     \* intervalMs = intervalSeconds * 1000; the modelled clock
                        \* samples performance.now() once per second
DETECTION_FPS == 12
BASE_ALPHA_NUM == 25    \* BASE_ALPHA = 0.25, in hundredths
DEAD_ZONE_EPS == 2
THRESHOLD_TENTHS == 8   \* thresholdMs = intervalMs * 0.8

Null == -1              \* JavaScript null (no timestamp or frame id is negative)

\* the options of the two <select> elements that the model lets the user pick
AUTO_CAPTURE_INTERVAL_OPTIONS == {0, 5, 10}
DEFAULT_AUTO_CAPTURE_INTERVAL == 0
OBJECT_TYPE_OPTIONS == {"all", "person"}
DEFAULT_OBJECT_TYPE == "all"

\* allowed category names per filter type
OBJECT_TYPE_MAP ==
  [t \in {"person", "pet", "car"} |->
     CASE t = "person" -> {"person", "human"}
       [] t = "pet"    -> {"dog", "cat", "bird"}
       [] t = "car"    -> {"car", "truck", "bus", "motorcycle"}]

\* ------------------------------------------------------- floating point
\* A JavaScript number is a binary floating-point value.  The model keeps the
\* format and its rounding (to nearest, ties to even, after every operation)
\* with a mantissa of MantissaBits bits.  A value is [m, e], standing for
\* m * 2^e, with 2^(MantissaBits-1) <= |m| < 2^MantissaBits, or m = 0 and e = 0.
Abs(i) == IF i < 0 THEN -i ELSE i
Max(a, b) == IF a >= b THEN a ELSE b
Min(a, b) == IF a <= b THEN a ELSE b
Sign(i) == IF i < 0 THEN -1 ELSE 1

\* the number of bits of n, 0 <= n < 2^31
BitLen4(n) == IF n < 4 THEN (IF n < 2 THEN n ELSE 2) ELSE (IF n < 8 THEN 3 ELSE 4)
BitLen8(n) == IF n < 16 THEN BitLen4(n) ELSE 4 + BitLen4(n \div 16)
BitLen16(n) == IF n < 256 THEN BitLen8(n) ELSE 8 + BitLen8(n \div 256)
BitLen(n) == IF n < 65536 THEN BitLen16(n) ELSE 16 + BitLen16(n \div 65536)

\* n >= 0 without its s low bits, rounded to nearest, ties to even
RoundBits(n, s) ==
  LET q == n \div (2 ^ s)
      r == n % (2 ^ s)
      half == 2 ^ (s - 1)
  IN  IF r > half \/ (r = half /\ q % 2 = 1) THEN q + 1 ELSE q

\* sign * n * 2^e for n of exactly len bits, rounded to the mantissa
FlOfLen(sign, n, e, len) ==
  IF len <= MantissaBits
  THEN [m |-> sign * n * (2 ^ (MantissaBits - len)), e |-> e - (MantissaBits - len)]
  ELSE LET q == RoundBits(n, len - MantissaBits)
       IN  IF q = 2 ^ MantissaBits
           THEN [m |-> sign * (2 ^ (MantissaBits - 1)), e |-> e + len - MantissaBits + 1]
           ELSE [m |-> sign * q, e |-> e + len - MantissaBits]

\* the floating-point value nearest to sign * n * 2^e, n >= 0
Fl(sign, n, e) ==
  IF n = 0 THEN [m |-> 0, e |-> 0] ELSE FlOfLen(sign, n, e, BitLen(n))

RInt(i) == Fl(Sign(i), Abs(i), 0)
Zero == RInt(0)
Two == RInt(2)
RNeg(a) == [m |-> -a.m, e |-> a.e]

\* the exact sum of a and b, a.e >= b.e, as an integer multiple of 2^b.e
AlignedSum(a, b) == a.m * (2 ^ (a.e - b.e)) + b.m

\* a + b: exact when the operands overlap; an operand below a quarter of the
\* last place of the other does not change it
RAdd(a, b) ==
  IF a.m = 0 THEN b
  ELSE IF b.m = 0 THEN a
  ELSE IF b.e <= a.e - MantissaBits - 2 THEN a
  ELSE IF a.e <= b.e - MantissaBits - 2 THEN b
  ELSE LET sum == IF a.e >= b.e THEN AlignedSum(a, b) ELSE AlignedSum(b, a)
       IN  Fl(Sign(sum), Abs(sum), Min(a.e, b.e))
RSub(a, b) == RAdd(a, RNeg(b))
RMul(a, b) == Fl(Sign(a.m) * Sign(b.m), Abs(a.m) * Abs(b.m), a.e + b.e)

\* the quotient of n * 2^(MantissaBits + 2) by d with a sticky last bit
StickyQuotient(n, d) ==
  LET num == n * (2 ^ (MantissaBits + 2))
  IN  2 * (num \div d) + (IF num % d = 0 THEN 0 ELSE 1)

\* a / b, b # 0
RDiv(a, b) ==
  Fl(Sign(a.m) * Sign(b.m), StickyQuotient(Abs(a.m), Abs(b.m)),
     a.e - b.e - MantissaBits - 3)

\* the literal n/d (0.1, 0.25, ...) and the confidence scores
Rat(n, d) == RDiv(RInt(n), RInt(d))
\* a < b and a <= b: the exponents order values of one sign
RLt(a, b) ==
  IF a.m < 0 /\ b.m < 0 THEN (a.e > b.e \/ (a.e = b.e /\ a.m < b.m))
  ELSE IF a.m > 0 /\ b.m > 0 THEN (a.e < b.e \/ (a.e = b.e /\ a.m < b.m))
  ELSE a.m < b.m
RLe(a, b) == a = b \/ RLt(a, b)
RMax(a, b) == IF RLt(a, b) THEN b ELSE a
RMin(a, b) == IF RLt(b, a) THEN b ELSE a
RAbs(a) == [m |-> Abs(a.m), e |-> a.e]
\* mutant: the fraction is cut off
RRound_truncates(a) ==
  IF a.e >= 0 THEN a.m * (2 ^ a.e) ELSE a.m \div (2 ^ (-a.e))

\* Math.round: nearest integer, ties towards +infinity
RRound(a) ==
  IF a.e >= 0 THEN a.m * (2 ^ a.e)
  ELSE IF -a.e > MantissaBits + 1 THEN 0
  ELSE (2 * a.m + 2 ^ (-a.e)) \div (2 ^ (1 - a.e))

\* ------------------------------------------------- presence-window tracker
\* The tracker's four variables as one record.
Tracker(periods, detected, start, captureTime) ==
  [detectionPeriods |-> periods, lastObjectDetected |-> detected,
   currentDetectionStart |-> start, lastCaptureTime |-> captureTime]

\* the declarations "let detectionPeriods = []; ..." at module load
InitialTracking == Tracker(<<>>, FALSE, Null, 0)

\* mutant: the open period is restarted by every call that sees the object
applyDetection_reopensEveryCall(tr, nowMs, isObjectDetected) ==
  IF isObjectDetected
  THEN [tr EXCEPT !.currentDetectionStart = nowMs, !.lastObjectDetected = TRUE]
  ELSE [tr EXCEPT !.detectionPeriods =
                     IF tr.lastObjectDetected /\ tr.currentDetectionStart # Null
                     THEN Append(@, [start |-> tr.currentDetectionStart, end |-> nowMs])
                     ELSE @,
                  !.currentDetectionStart =
                     IF tr.lastObjectDetected THEN Null ELSE @,
                  !.lastObjectDetected = FALSE]

\* presence transition: open a period on appearance, close it on disappearance
applyDetection(tr, nowMs, isObjectDetected) ==
  IF isObjectDetected
  THEN [tr EXCEPT !.currentDetectionStart =
                     IF ~tr.lastObjectDetected THEN nowMs ELSE @,
                  !.lastObjectDetected = TRUE]
  ELSE [tr EXCEPT !.detectionPeriods =
                     IF tr.lastObjectDetected /\ tr.currentDetectionStart # Null
                     THEN Append(@, [start |-> tr.currentDetectionStart, end |-> nowMs])
                     ELSE @,
                  !.currentDetectionStart =
                     IF tr.lastObjectDetected THEN Null ELSE @,
                  !.lastObjectDetected = FALSE]

\* mutant: the result of the filter is dropped, every period is kept
keepPeriod_unfiltered(period, windowStart) == TRUE

\* detectionPeriods.filter(period => period.end >= windowStart)
keepPeriod(period, windowStart) == period.end >= windowStart
filterPeriods(periods, windowStart) ==
  SelectSeq(periods, LAMBDA period: keepPeriod(period, windowStart))

\* one completed period's contribution, clipped to [windowStart, nowMs]
periodTime(period, windowStart, nowMs) ==
  LET periodStart == Max(period.start, windowStart)
      periodEnd == Min(period.end, nowMs)
  IN  IF periodEnd > periodStart THEN periodEnd - periodStart ELSE 0

RECURSIVE completedTime(_, _, _)
completedTime(periods, windowStart, nowMs) ==
  IF periods = <<>> THEN 0
  ELSE periodTime(Head(periods), windowStart, nowMs)
         + completedTime(Tail(periods), windowStart, nowMs)

\* the open period's contribution
currentTime(start, windowStart, nowMs) ==
  IF start # Null
  THEN LET currentStart == Max(start, windowStart)
       IN  IF nowMs > currentStart THEN nowMs - currentStart ELSE 0
  ELSE 0

totalDetectionTime(tr, windowStart, nowMs) ==
  completedTime(tr.detectionPeriods, windowStart, nowMs)
    + currentTime(tr.currentDetectionStart, windowStart, nowMs)

\* mutant: the whole interval is required instead of 80% of it
thresholdReached_fullInterval(total, intervalMs) == total >= intervalMs

\* totalDetectionTime >= intervalMs * 0.8
thresholdReached(total, intervalMs) == total * 10 >= intervalMs * THRESHOLD_TENTHS

\* mutant: the elapsed milliseconds are compared with the interval in seconds
cooldownElapsed_inSeconds(nowMs, captureTime, intervalMs) ==
  nowMs - captureTime >= intervalMs \div MsPerSecond

\* nowMs - lastCaptureTime >= intervalMs
cooldownElapsed(nowMs, captureTime, intervalMs) == nowMs - captureTime >= intervalMs

\* mutant: the firing restarts the open period at nowMs
rebaseline_restartsOpenPeriod(tr, nowMs, intervalMs) ==
  LET newWindowStart == nowMs - intervalMs
  IN  [tr EXCEPT !.detectionPeriods = filterPeriods(@, newWindowStart),
                 !.currentDetectionStart = IF @ # Null THEN nowMs ELSE @]

\* mutant: the firing closes the open period without recording it
rebaseline_dropsOpenPeriod(tr, nowMs, intervalMs) ==
  LET newWindowStart == nowMs - intervalMs
  IN  [tr EXCEPT !.detectionPeriods = filterPeriods(@, newWindowStart),
                 !.currentDetectionStart = Null]

\* mutant: the open period is moved to the end of the cooldown
rebaseline_clampsPastCooldown(tr, nowMs, intervalMs) ==
  LET newWindowStart == nowMs - intervalMs
  IN  [tr EXCEPT !.detectionPeriods = filterPeriods(@, newWindowStart),
                 !.currentDetectionStart = IF @ # Null THEN nowMs + intervalMs ELSE @]

\* re-baseline after a firing
rebaseline(tr, nowMs, intervalMs) ==
  LET newWindowStart == nowMs - intervalMs
  IN  [tr EXCEPT !.detectionPeriods = filterPeriods(@, newWindowStart),
                 !.currentDetectionStart =
                    IF @ # Null /\ @ < newWindowStart THEN newWindowStart ELSE @]

\* mutant: the running flag is not consulted
trackingDisabled_intervalOnly(intervalSeconds, isRunning) == intervalSeconds = 0

\* "Manual mode or not running - reset tracking"
trackingDisabled(intervalSeconds, isRunning) == intervalSeconds = 0 \/ ~isRunning

\* The whole of checkObjectDetectionForAutoCapture(nowMs).  The result is the
\* tracker afterwards, whether runCaptureAndAnalyze was invoked (fired), and
\* the totalDetectionTime it computed (Null when the window was not evaluated).
checkObjectDetectionForAutoCapture(tr, nowMs, intervalSeconds, isRunning, isObjectDetected) ==
  IF trackingDisabled(intervalSeconds, isRunning)
  THEN [tracker |-> Tracker(<<>>, FALSE, Null, tr.lastCaptureTime),
        fired |-> FALSE, total |-> Null]
  ELSE
    LET intervalMs == intervalSeconds * MsPerSecond
        windowStart == nowMs - intervalMs
        t1 == applyDetection(tr, nowMs, isObjectDetected)
        t2 == [t1 EXCEPT !.detectionPeriods = filterPeriods(@, windowStart)]
        total == totalDetectionTime(t2, windowStart, nowMs)
        fire == thresholdReached(total, intervalMs)
                  /\ cooldownElapsed(nowMs, t2.lastCaptureTime, intervalMs)
    IN  [tracker |-> IF fire
                     THEN rebaseline([t2 EXCEPT !.lastCaptureTime = nowMs],
                                     nowMs, intervalMs)
                     ELSE t2,
         fired |-> fire, total |-> total]

\* ----------------------------------------------------------- render pass
\* Category labels the modelled detector can report (all lower case).
CategoryNames == {"person", "dog"}

\* categoryName.toLowerCase().includes(type): none of the modelled labels
\* contains another allowed type as a proper substring, so the substring test
\* is equality on them.
includes(categoryName, type) == categoryName = type

\* det.categories?.[0] exists
hasCategory(det) == Len(det.categories) > 0

retainedByType(det, filterType) ==
  LET cat == det.categories[1]
  IN  /\ hasCategory(det)
      /\ \E type \in (IF filterType \in DOMAIN OBJECT_TYPE_MAP
                      THEN OBJECT_TYPE_MAP[filterType] ELSE {}) :
            includes(cat.categoryName, type)

filterDetectionsByType(detections, filterType) ==
  IF filterType = "all" THEN detections
  ELSE SelectSeq(detections, LAMBDA det: retainedByType(det, filterType))

isSelectedObjectTypeDetected(detections, filterType) ==
  IF filterType = "all" THEN Len(detections) > 0
  ELSE \E i \in 1..Len(detections) :
         \E type \in (IF filterType \in DOMAIN OBJECT_TYPE_MAP
                      THEN OBJECT_TYPE_MAP[filterType] ELSE {}) :
            includes(detections[i].categoryName, type)

Rect(x, y, w, h) == [x |-> x, y |-> y, w |-> w, h |-> h]

\* object-fit: cover mapping from video pixels to canvas CSS pixels
\* scale = Math.max(viewW / videoW, viewH / videoH)
coverScale_contain(video) ==
  RMin(RDiv(RInt(video.viewW), RInt(video.videoWidth)),
       RDiv(RInt(video.viewH), RInt(video.videoHeight)))

coverScale(video) ==
  RMax(RDiv(RInt(video.viewW), RInt(video.videoWidth)),
       RDiv(RInt(video.viewH), RInt(video.videoHeight)))

\* offsetX = (videoW * scale - viewW) / 2, and the same for offsetY
coverOffset(videoSize, viewSize, scale) ==
  RDiv(RSub(RMul(RInt(videoSize), scale), RInt(viewSize)), Two)

\* the returned rect, given scale and the two offsets
scaledRect(bbox, scale, offsetX, offsetY) ==
  Rect(RSub(RMul(RInt(bbox.originX), scale), offsetX),
       RSub(RMul(RInt(bbox.originY), scale), offsetY),
       RMul(RInt(bbox.width), scale),
       RMul(RInt(bbox.height), scale))

mapRectFromVideoToCanvas(bbox, video) ==
  \* the scale is computed once and passed on, as the code's const
  LET scaleOf == {coverScale(video)}
  IN  CHOOSE rect \in
        { scaledRect(bbox, scale,
                     coverOffset(video.videoWidth, video.viewW, scale),
                     coverOffset(video.videoHeight, video.viewH, scale)) :
            scale \in scaleOf } : TRUE

\* "Clamp if partially off-screen"
clampRect(rawRect, video) ==
  LET viewW == RInt(video.viewW)
      viewH == RInt(video.viewH)
  IN  Rect(RMax(Zero, RMin(viewW, rawRect.x)),
           RMax(Zero, RMin(viewH, rawRect.y)),
           RMax(Zero, RMin(RSub(viewW, rawRect.x), rawRect.w)),
           RMax(Zero, RMin(RSub(viewH, rawRect.y), rawRect.h)))

\* the smoothing Map: a function from the stored keys to rects
NoBoxes == [k \in {} |-> Null]
mapSet_forgetsOthers(boxes, key, rect) == [k \in {key} |-> rect]
mapSet(boxes, key, rect) ==
  [k \in DOMAIN boxes \cup {key} |-> IF k = key THEN rect ELSE boxes[k]]

\* alpha = clamp(BASE_ALPHA + confidence * 0.4, 0.1, 0.9)
BASE_ALPHA == Rat(BASE_ALPHA_NUM, 100)
CONFIDENCE_GAIN == Rat(4, 10)
ALPHA_MIN == Rat(1, 10)
ALPHA_MAX == Rat(9, 10)
dynamicAlpha_unclamped(confidence) == RAdd(BASE_ALPHA, RMul(confidence, CONFIDENCE_GAIN))

dynamicAlpha(confidence) ==
  RMax(ALPHA_MIN, RMin(ALPHA_MAX, RAdd(BASE_ALPHA, RMul(confidence, CONFIDENCE_GAIN))))

ema_overshoots(prev, new, alpha) == RAdd(new, RMul(alpha, RSub(new, prev)))
ema(prev, new, alpha) == RAdd(prev, RMul(alpha, RSub(new, prev)))

\* smoothBBox: the map afterwards and the returned rect
\* "const next = {...}" for the previous rect prev
nextBBox(prev, bbox, alpha) ==
  Rect(ema(prev.x, bbox.x, alpha), ema(prev.y, bbox.y, alpha),
       ema(prev.w, bbox.w, alpha), ema(prev.h, bbox.h, alpha))

\* "map.set(key, rect); return rect"
setAndReturn(boxes, key, rect) == [boxes |-> mapSet(boxes, key, rect), rect |-> rect]

\* mutant: a first sighting is smoothed in from the empty rect
smoothBBox_fromOrigin(boxes, key, bbox, confidence) ==
  CHOOSE result \in
    { setAndReturn(boxes, key, next) :
        next \in { nextBBox(IF key \in DOMAIN boxes THEN boxes[key]
                            ELSE Rect(Zero, Zero, Zero, Zero), bbox, alpha) :
                     alpha \in {dynamicAlpha(confidence)} } } : TRUE

smoothBBox(boxes, key, bbox, confidence) ==
  IF key \notin DOMAIN boxes
  THEN setAndReturn(boxes, key, bbox)
  ELSE CHOOSE result \in
         { setAndReturn(boxes, key, next) :
             next \in { nextBBox(boxes[key], bbox, alpha) :
                          alpha \in {dynamicAlpha(confidence)} } } : TRUE

deadZoneField_inclusive(prev, curr, eps) ==
  IF RLe(RAbs(RSub(curr, prev)), RInt(eps)) THEN prev ELSE curr

deadZoneField(prev, curr, eps) ==
  IF RLt(RAbs(RSub(curr, prev)), RInt(eps)) THEN prev ELSE curr

applyDeadZone(prev, curr, eps) ==
  Rect(deadZoneField(prev.x, curr.x, eps), deadZoneField(prev.y, curr.y, eps),
       deadZoneField(prev.w, curr.w, eps), deadZoneField(prev.h, curr.h, eps))

\* the body of drawDetections' for-loop for one retained detection; acc holds
\* the map, the detection data and the rects drawn so far, and currentKeys
finalRectOf_skipsDeadZone(boxes, key, smoothed) == smoothed

\* "const finalRect = prev ? applyDeadZone(prev, smoothed, DEAD_ZONE_EPS) : smoothed"
finalRectOf(boxes, key, smoothed) ==
  IF key \in DOMAIN boxes
  THEN applyDeadZone(boxes[key], smoothed, DEAD_ZONE_EPS)
  ELSE smoothed

\* "smoothBoxes.set(key, finalRect)", the stroke, the label and the data push
drawRect(acc, det, key, boxes, finalRect) ==
  [boxes |-> mapSet(boxes, key, finalRect),
   data |-> Append(acc.data,
              [categoryName |-> det.categories[1].categoryName,
               score |-> det.categories[1].score,
               x |-> RRound(finalRect.x), y |-> RRound(finalRect.y),
               width |-> RRound(finalRect.w), height |-> RRound(finalRect.h),
               videoBbox |-> det.boundingBox]),
   drawn |-> Append(acc.drawn, [key |-> key, rect |-> finalRect]),
   currentKeys |-> acc.currentKeys \cup {key}]

drawOne_keepsUnlabelled(acc, det, video) ==
  IF ~hasCategory(det)
  THEN [acc EXCEPT !.currentKeys = @ \cup {"unknown"},
                   !.boxes = mapSet(@, "unknown",
                               clampRect(mapRectFromVideoToCanvas(det.boundingBox, video),
                                         video))]
  ELSE CHOOSE result \in
         { drawRect(acc, det, det.categories[1].categoryName, sm.boxes,
                    finalRectOf(acc.boxes, det.categories[1].categoryName, sm.rect)) :
             sm \in { smoothBBox(acc.boxes, det.categories[1].categoryName,
                                 clampedRect, det.categories[1].score) :
                        clampedRect \in
                          { clampRect(mapRectFromVideoToCanvas(det.boundingBox, video),
                                      video) } } } : TRUE

drawOne(acc, det, video) ==
  IF ~hasCategory(det) THEN acc
  ELSE CHOOSE result \in
         { drawRect(acc, det, det.categories[1].categoryName, sm.boxes,
                    finalRectOf(acc.boxes, det.categories[1].categoryName, sm.rect)) :
             sm \in { smoothBBox(acc.boxes, det.categories[1].categoryName,
                                 clampedRect, det.categories[1].score) :
                        clampedRect \in
                          { clampRect(mapRectFromVideoToCanvas(det.boundingBox, video),
                                      video) } } } : TRUE

RECURSIVE drawAll(_, _, _)
drawAll(acc, dets, video) ==
  IF dets = <<>> THEN acc
  ELSE drawAll(drawOne(acc, Head(dets), video), Tail(dets), video)

\* mutant: stale entries are never removed
removeStale_keepsAll(boxes, currentKeys) == boxes

\* "Remove stale entries (objects that disappeared)"
removeStale(boxes, currentKeys) ==
  [k \in DOMAIN boxes \cap currentKeys |-> boxes[k]]

\* drawDetections: the returned detection data, the smoothing map afterwards
\* and the rects drawn on the canvas, in drawing order
passResult(acc) ==
  [data |-> acc.data, boxes |-> removeStale(acc.boxes, acc.currentKeys),
   drawn |-> acc.drawn]

drawDetections(detections, boxes, objectFilter, video) ==
  passResult(drawAll([boxes |-> boxes, data |-> <<>>, drawn |-> <<>>, currentKeys |-> {}],
                     filterDetectionsByType(detections, objectFilter), video))

\* ------------------------------------------------------------------ state
VARIABLES
  clock,                    \* performance.now(), ms
  videoTime,                \* video.currentTime
  video,                    \* videoWidth/videoHeight and the view rectangle
  detector,                 \* "none" | "ready"
  loadingStarts,            \* startDetection calls awaiting initializeDetector
  running,
  startBtnDisabled,
  lastVideoTime,
  lastInferTime,
  lastDetectionData,
  selectedObjectType,
  intervalSelect,           \* value of the auto-capture <select>, seconds
  autoCaptureIntervalSeconds,
  detectionPeriods,
  lastObjectDetected,
  currentDetectionStart,
  lastCaptureTime,
  smoothBoxes,
  animationFrameId,
  frames,                   \* requestAnimationFrame callbacks not yet run
  suspended,                \* ticks awaiting the detector, each with its nowMs
  lastObserve,              \* history: the latest checkObjectDetectionForAutoCapture call
                            \* since the latest reset
  fireLog,                  \* history: nowMs of the firings since the latest reset
  lastReset,                \* history: the latest reset not yet followed by an observe
  lastRender,               \* history: the latest drawDetections call
  everEvicted,              \* history: keys removed as stale by some render pass
  scenario,                 \* the environment: free inputs, or a presence script
                            \* that began at scenario.origin
  status,                   \* text of the status element
  responsePanel,            \* "hidden" | "analysis" | "error"
  captures,                 \* runCaptureAndAnalyze calls in flight, each at its await
  timers,                   \* pending setTimeout(setRunningStatus, delay) callbacks
  uncaught,                 \* exceptions that escaped runCaptureAndAnalyze
  lastEnded,                \* history: how the latest runCaptureAndAnalyze call ended
  calc                      \* the latest direct call of a pure function, with its result

clockVars == <<clock, videoTime, video>>
uiVars == <<selectedObjectType, intervalSelect, autoCaptureIntervalSeconds, startBtnDisabled>>
trackVars == <<detectionPeriods, lastObjectDetected, currentDetectionStart, lastCaptureTime>>
loopVars == <<running, detector, loadingStarts, lastVideoTime, lastInferTime,
              animationFrameId, frames, suspended>>
renderVars == <<lastDetectionData, smoothBoxes>>
histVars == <<lastObserve, fireLog, lastReset, lastRender, everEvicted>>
captureVars == <<status, responsePanel, captures, timers, uncaught, lastEnded>>
vars == <<clockVars, uiVars, trackVars, loopVars, renderVars, histVars, scenario,
          captureVars, calc>>

Tracking == Tracker(detectionPeriods, lastObjectDetected, currentDetectionStart, lastCaptureTime)

setTracking(tr) ==
  /\ detectionPeriods' = tr.detectionPeriods
  /\ lastObjectDetected' = tr.lastObjectDetected
  /\ currentDetectionStart' = tr.currentDetectionStart
  /\ lastCaptureTime' = tr.lastCaptureTime

\* ------------------------------------------------------- modelled inputs
\* confidence scores of the modelled detections
ScoreHalf == Rat(1, 2)
ScoreMid == Rat(5, 8)
BoxA == [originX |-> 8, originY |-> 4, width |-> 16, height |-> 12]
BoxB == [originX |-> 40, originY |-> 24, width |-> 24, height |-> 24]
Det(name, score, box) ==
  [categories |-> <<[categoryName |-> name, score |-> score]>>, boundingBox |-> box]
NoCategoryDet == [categories |-> <<>>, boundingBox |-> BoxA]

\* what detector.detectForVideo may return in the loop model
LoopFrames ==
  { <<>>, <<Det("person", ScoreHalf, BoxA)>>, <<Det("dog", Rat(3, 4), BoxB)>> }

LoopVideo == [videoWidth |-> 64, videoHeight |-> 48, viewW |-> 32, viewH |-> 32]

NoObserve == [nowMs |-> 0, detected |-> FALSE, total |-> Null,
              fired |-> FALSE, afterReset |-> "none", live |-> FALSE]
NoRender == [n |-> 0, frame |-> <<>>, drawn |-> <<>>, reappeared |-> {}]
NoReset == [kind |-> "none", live |-> FALSE]
NoEnded == [outcome |-> "none", stage |-> "none", manual |-> FALSE,
            wasRunning |-> FALSE]
NoCalc == [op |-> "none"]

\* the page as loaded, before any click
PageLoaded(scn) ==
  /\ clock = 0
  /\ videoTime = 0
  /\ video = LoopVideo
  /\ detector = "none"
  /\ loadingStarts = 0
  /\ running = FALSE
  /\ startBtnDisabled = FALSE
  /\ lastVideoTime = -1
  /\ lastInferTime = 0
  /\ lastDetectionData = <<>>
  /\ selectedObjectType = DEFAULT_OBJECT_TYPE
  /\ intervalSelect = DEFAULT_AUTO_CAPTURE_INTERVAL
  /\ autoCaptureIntervalSeconds = DEFAULT_AUTO_CAPTURE_INTERVAL
  /\ detectionPeriods = InitialTracking.detectionPeriods
  /\ lastObjectDetected = InitialTracking.lastObjectDetected
  /\ currentDetectionStart = InitialTracking.currentDetectionStart
  /\ lastCaptureTime = InitialTracking.lastCaptureTime
  /\ smoothBoxes = NoBoxes
  /\ animationFrameId = Null
  /\ frames = {}
  /\ suspended = <<>>
  /\ lastObserve = NoObserve
  /\ fireLog = <<>>
  /\ lastReset = NoReset
  /\ lastRender = NoRender
  /\ everEvicted = {}
  /\ scenario = scn
  /\ status = "Ready - Click to start detection"
  /\ responsePanel = "hidden"
  /\ captures = <<>>
  /\ timers = {}
  /\ uncaught = 0
  /\ lastEnded = NoEnded
  /\ calc = NoCalc

Init == PageLoaded([kind |-> "free", origin |-> 0])

\* ---------------------------------------------------------------- resets
\* stopAutoCapture: the four tracking variables after it
stopAutoCapture == Tracker(<<>>, FALSE, Null, 0)

\* startAutoCapture: stopAutoCapture(), then the reset under intervalSeconds > 0
startAutoCapture(intervalSeconds) ==
  IF intervalSeconds > 0 THEN Tracker(<<>>, FALSE, Null, 0) ELSE stopAutoCapture

\* mutant: the presence flag survives the filter change
filterChangeTracking_keepsFlag == Tracker(<<>>, lastObjectDetected, Null, 0)

\* the tracking reset of onObjectFilterChange
filterChangeTracking == Tracker(<<>>, FALSE, Null, 0)

\* mutant: the interval change leaves the open period open
intervalChangeTracking_keepsOpenPeriod(isRunning, intervalSeconds) ==
  Tracker(<<>>, FALSE, currentDetectionStart, 0)

\* the tracking reset of onAutoCaptureIntervalChange
intervalChangeTracking(isRunning, intervalSeconds) ==
  IF isRunning THEN startAutoCapture(intervalSeconds) ELSE Tracker(<<>>, FALSE, Null, 0)

\* the tracking reset of stopDetection (stopAutoCapture, then its own)
stopDetectionTracking == Tracker(<<>>, FALSE, Null, 0)

Watching == running /\ intervalSelect > 0
HasState == detectionPeriods # <<>> \/ currentDetectionStart # Null \/ lastObjectDetected

recordReset(kind) ==
  /\ lastReset' = [kind |-> kind, live |-> Watching /\ HasState]
  /\ fireLog' = <<>>
  /\ lastObserve' = NoObserve
  /\ UNCHANGED <<lastRender, everEvicted>>

\* ------------------------------------------------------ capture pipeline
\* runCaptureAndAnalyze suspends at "await captureScreenToBlobAndData" (stage
\* "capturing") and at "await requestAnalysis" (stage "sending"); the two
\* processing hooks are empty async functions and resume in the same task.

\* a call of runCaptureAndAnalyze on a ready video runs to its first await
launchCapture_awaited(inFlight, manual) == inFlight
launchCapture(inFlight, manual) ==
  Append(inFlight, [stage |-> "capturing", manual |-> manual])

\* the delays of handleAnalysisResponse and handleAnalysisError
SUCCESS_DELAY_MS == 500
ERROR_DELAY_MS == 3000

\* the try block of runCaptureAndAnalyze encloses both awaits
caughtByPipeline_onlyRequest(stage) == stage = "sending"
caughtByPipeline(stage) == stage \in {"capturing", "sending"}

\* handleAnalysisResponse: the status, the panel and the timers afterwards
handleAnalysisResponse(hasAnalysis, now) ==
  IF hasAnalysis
  THEN [status |-> "Analysis received", responsePanel |-> "analysis",
        timers |-> timers \cup {[due |-> now + SUCCESS_DELAY_MS, delay |-> SUCCESS_DELAY_MS]}]
  ELSE [status |-> status, responsePanel |-> responsePanel, timers |-> timers]

\* handleAnalysisError
handleAnalysisError(now) ==
  [status |-> "API Error", responsePanel |-> "error",
   timers |-> timers \cup {[due |-> now + ERROR_DELAY_MS, delay |-> ERROR_DELAY_MS]}]

\* "() => { if (running) setStatus("Detection active"); }"
setRunningStatus_unguarded(isRunning, current) == "Detection active"
setRunningStatus(isRunning, current) ==
  IF isRunning THEN "Detection active" ELSE current

\* ------------------------------------------------------------------ loop
Chains == Cardinality(frames) + Len(suspended) + loadingStarts

\* how many chains the running specification lets the clicks build up
ChainLimit == IF scenario.kind = "overlap" THEN MaxOverlap ELSE MaxChains

\* the id requestAnimationFrame returns: one that names no pending callback
\* and is not the handle still held in animationFrameId
newFrameId(pending) ==
  CHOOSE id \in 1..(ChainLimit + 2) :
    /\ id \notin pending \cup {animationFrameId}
    /\ \A other \in 1..(id - 1) : other \in pending \cup {animationFrameId}

inferenceDue_always(nowMs, inferTime) == TRUE

\* (nowMs - lastInferTime) >= DETECTION_INTERVAL_MS, with
\* DETECTION_INTERVAL_MS = 1000 / DETECTION_FPS
inferenceDue(nowMs, inferTime) == (nowMs - inferTime) * DETECTION_FPS >= MsPerSecond

\* One run of loop() up to its first await or its return.  isRunning, videoT
\* and inferT are running, lastVideoTime and lastInferTime as loop() finds
\* them; pending is the set of callbacks still waiting; ready is
\* video.readyState >= 2.
loopBody(isRunning, videoT, inferT, pending, ready) ==
  LET reschedule ==
        /\ animationFrameId' = newFrameId(pending)
        /\ frames' = pending \cup {newFrameId(pending)}
        /\ suspended' = suspended
        /\ lastVideoTime' = videoT
        /\ lastInferTime' = inferT
  IN  IF ~isRunning
      THEN /\ animationFrameId' = Null
           /\ frames' = pending
           /\ suspended' = suspended
           /\ lastVideoTime' = videoT
           /\ lastInferTime' = inferT
      ELSE IF ~ready
      THEN reschedule
      ELSE IF videoTime # videoT /\ inferenceDue(clock, inferT)
      THEN /\ lastVideoTime' = videoTime
           /\ lastInferTime' = clock
           /\ suspended' = Append(suspended, [nowMs |-> clock])
           /\ frames' = pending
           /\ animationFrameId' = animationFrameId
      ELSE reschedule

\* a requestAnimationFrame callback runs loop()
loop ==
  \E id \in frames, ready \in BOOLEAN :
    /\ loopBody(running, lastVideoTime, lastInferTime, frames \ {id}, ready)
    /\ UNCHANGED <<running, detector, loadingStarts>>
    /\ UNCHANGED <<clockVars, uiVars, trackVars, renderVars, histVars, scenario,
                   captureVars, calc>>

\* the rest of startDetection once the detector exists
startBody(ready) ==
  /\ running' = TRUE
  /\ startBtnDisabled' = TRUE
  /\ autoCaptureIntervalSeconds' = intervalSelect
  /\ setTracking(startAutoCapture(intervalSelect))
  /\ loopBody(TRUE, -1, 0, frames, ready)
  /\ recordReset("start")
  /\ status' = "Detection active"
  /\ UNCHANGED <<selectedObjectType, intervalSelect, clockVars, renderVars, scenario>>
  /\ UNCHANGED <<responsePanel, captures, timers, uncaught, lastEnded, calc>>

\* click on the start button
startDetection ==
  /\ ~startBtnDisabled
  /\ Chains < ChainLimit
  /\ IF detector = "none"
     THEN /\ loadingStarts' = loadingStarts + 1
          /\ status' = "Loading model"
          /\ UNCHANGED <<running, detector, lastVideoTime, lastInferTime,
                         animationFrameId, frames, suspended>>
          /\ UNCHANGED <<clockVars, uiVars, trackVars, renderVars, histVars, scenario>>
          /\ UNCHANGED <<responsePanel, captures, timers, uncaught, lastEnded, calc>>
     ELSE /\ \E ready \in BOOLEAN : startBody(ready)
          /\ UNCHANGED <<detector, loadingStarts>>

\* initializeDetector resolves inside a startDetection call
detectorLoaded ==
  /\ loadingStarts > 0
  /\ loadingStarts' = loadingStarts - 1
  /\ detector' = "ready"
  /\ \E ready \in BOOLEAN : startBody(ready)

\* initializeDetector rejects: the call reports the error and returns
detectorFailed ==
  /\ loadingStarts > 0
  /\ detector = "none"
  /\ loadingStarts' = loadingStarts - 1
  /\ status' = "Error"
  /\ UNCHANGED <<running, detector, lastVideoTime, lastInferTime,
                 animationFrameId, frames, suspended>>
  /\ UNCHANGED <<clockVars, uiVars, trackVars, renderVars, histVars, scenario>>
  /\ UNCHANGED <<responsePanel, captures, timers, uncaught, lastEnded, calc>>

\* click on the stop button
stopDetection ==
  /\ running' = FALSE
  /\ frames' = IF animationFrameId # Null THEN frames \ {animationFrameId} ELSE frames
  /\ animationFrameId' = Null
  /\ autoCaptureIntervalSeconds' = 0
  /\ setTracking(stopDetectionTracking)
  /\ lastDetectionData' = <<>>
  /\ smoothBoxes' = NoBoxes
  /\ startBtnDisabled' = FALSE
  /\ recordReset("stop")
  /\ status' = "Detection stopped"
  /\ UNCHANGED <<detector, loadingStarts, lastVideoTime, lastInferTime, suspended>>
  /\ UNCHANGED <<selectedObjectType, intervalSelect, clockVars, scenario>>
  /\ UNCHANGED <<responsePanel, captures, timers, uncaught, lastEnded, calc>>

\* the history of a drawDetections call, kept by the render specification
recordRender(frame, drawn) ==
  IF scenario.kind = "render"
  THEN /\ lastRender' = [n |-> lastRender.n + 1, frame |-> frame, drawn |-> drawn.drawn,
                         reappeared |->
                           {drawn.drawn[j].key : j \in 1..Len(drawn.drawn)}
                             \cap (everEvicted \ DOMAIN smoothBoxes)]
       /\ everEvicted' = everEvicted \cup (DOMAIN smoothBoxes \ DOMAIN drawn.boxes)
  ELSE UNCHANGED <<lastRender, everEvicted>>

\* the presence scripts: is the object in view at time t after the origin?
Scripts == {"continuous", "continuousThenAbsent", "intermittent"}
scriptPresent(kind, t) ==
  CASE kind = "continuous" -> TRUE
    [] kind = "continuousThenAbsent" -> t <= 9000
    [] kind = "intermittent" -> t < 3000 \/ (4000 <= t /\ t < 9000)

\* the detector's answer for the tick that read nowMs
FramesFor(nowMs) ==
  CASE scenario.kind \in Scripts ->
         IF scriptPresent(scenario.kind, nowMs - scenario.origin)
         THEN {<<Det("person", ScoreHalf, BoxA)>>} ELSE {<<>>}
    [] scenario.kind = "watch" -> {<<>>, <<Det("person", ScoreHalf, BoxA)>>}
    [] scenario.kind \in {"capture", "retry"} -> {<<Det("person", ScoreHalf, BoxA)>>}
    [] OTHER -> LoopFrames

\* video.readyState >= 2 as runCaptureAndAnalyze finds it when the trigger
\* fires; the capture specifications let the camera drop out during the await
readyAtCapture(fired) ==
  IF fired /\ scenario.kind \in {"capture", "retry"} THEN BOOLEAN ELSE {TRUE}

\* a suspended tick resumes after "await detector.detectForVideo": render,
\* observe, schedule the next tick
loopResume ==
  \E i \in 1..Len(suspended) : \E frame \in FramesFor(suspended[i].nowMs) :
   \E drawn \in {drawDetections(frame, smoothBoxes, selectedObjectType, video)} :
   \E detected \in {isSelectedObjectTypeDetected(drawn.data, selectedObjectType)} :
   \E res \in {checkObjectDetectionForAutoCapture(Tracking, suspended[i].nowMs,
                                                  intervalSelect, running, detected)} :
    LET nowMs == suspended[i].nowMs
        pending == frames
    IN  /\ lastDetectionData' = drawn.data
        /\ smoothBoxes' = drawn.boxes
        /\ setTracking(res.tracker)
        /\ suspended' = SubSeq(suspended, 1, i - 1) \o SubSeq(suspended, i + 1, Len(suspended))
        /\ animationFrameId' = newFrameId(pending)
        /\ frames' = pending \cup {newFrameId(pending)}
        /\ lastObserve' = [nowMs |-> nowMs,
                           detected |-> detected, total |-> res.total,
                           fired |-> res.fired, afterReset |-> lastReset.kind,
                           live |-> lastReset.live]
        /\ fireLog' = IF res.fired THEN Append(fireLog, nowMs) ELSE fireLog
        /\ lastReset' = NoReset
        /\ recordRender(frame, drawn)
        /\ \E ready \in readyAtCapture(res.fired) :
             IF ready
             THEN /\ captures' = IF res.fired THEN launchCapture(captures, FALSE)
                                 ELSE captures
                  /\ UNCHANGED status
             ELSE /\ status' = "Camera not ready"
                  /\ UNCHANGED captures
        /\ UNCHANGED <<running, detector, loadingStarts, lastVideoTime, lastInferTime>>
        /\ UNCHANGED <<clockVars, uiVars, scenario>>
        /\ UNCHANGED <<responsePanel, timers, uncaught, lastEnded, calc>>

\* "change" on the object filter <select>
onObjectFilterChange ==
  \E value \in OBJECT_TYPE_OPTIONS \ {selectedObjectType} :
    /\ selectedObjectType' = value
    /\ setTracking(filterChangeTracking)
    /\ smoothBoxes' = NoBoxes
    /\ recordReset("class")
    /\ UNCHANGED <<lastDetectionData, intervalSelect, autoCaptureIntervalSeconds,
                   startBtnDisabled, clockVars, loopVars, scenario, captureVars, calc>>

\* "change" on the auto-capture interval <select>
onAutoCaptureIntervalChange ==
  \E value \in AUTO_CAPTURE_INTERVAL_OPTIONS \ {intervalSelect} :
    /\ intervalSelect' = value
    /\ setTracking(intervalChangeTracking(running, value))
    /\ autoCaptureIntervalSeconds' =
         IF running THEN value ELSE autoCaptureIntervalSeconds
    /\ recordReset("interval")
    /\ UNCHANGED <<selectedObjectType, startBtnDisabled, clockVars, loopVars,
                   renderVars, scenario, captureVars, calc>>

\* the last instant the clock of the running specification reaches
ClockLimit ==
  CASE scenario.kind = "free" -> MaxTicks * MsPerSecond
    [] scenario.kind = "watch" -> WatchTicks * MsPerSecond
    [] scenario.kind = "capture" -> CaptureTicks * MsPerSecond
    [] scenario.kind = "retry" -> RetryTicks * MsPerSecond
    [] scenario.kind = "overlap" -> OverlapTicks * MsPerSecond
    [] OTHER -> scenario.origin + ScriptSeconds * MsPerSecond

\* the grid on which performance.now() is sampled
GridMs == IF scenario.kind \in Scripts THEN MsPerSecond \div 2 ELSE MsPerSecond

\* under a script the loop keeps up with the grid: the tick of the current
\* instant has run inference and finished before time moves on
KeepsUp == scenario.kind \in Scripts => (suspended = <<>> /\ lastInferTime = clock)

\* time passes and the video plays on
advanceTime ==
  /\ clock + GridMs <= ClockLimit
  /\ KeepsUp
  /\ clock' = clock + GridMs
  /\ videoTime' = clock'
  /\ UNCHANGED <<video, uiVars, trackVars, loopVars, renderVars, histVars, scenario,
                 captureVars, calc>>

Next ==
  \/ advanceTime
  \/ startDetection
  \/ detectorLoaded
  \/ detectorFailed
  \/ stopDetection
  \/ loop
  \/ loopResume
  \/ onObjectFilterChange
  \/ onAutoCaptureIntervalChange

Spec == Init /\ [][Next]_vars

\* ------------------------------------------------- restarts and reloads
\* Start and Stop clicked at any time, a second Start included while the
\* detector is still loading or while a tick of the stopped loop is suspended.
NextOverlap ==
  \/ advanceTime
  \/ startDetection
  \/ detectorLoaded
  \/ stopDetection
  \/ loop
  \/ loopResume
  \/ onAutoCaptureIntervalChange

SpecOverlap == PageLoaded([kind |-> "overlap", origin |-> 0]) /\ [][NextOverlap]_vars

\* ---------------------------------------------------- watching, no reset
\* The state startDetection leaves when it runs at startMs with the interval
\* and the filter already chosen and finds the video not yet ready.  SpecWatch
\* starts so at time 0 with the 5 s window and takes no reset afterwards.
Started(startMs, intervalSeconds, filterType, scn) ==
  /\ clock = startMs
  /\ videoTime = startMs
  /\ video = LoopVideo
  /\ detector = "ready"
  /\ loadingStarts = 0
  /\ running = TRUE
  /\ startBtnDisabled = TRUE
  /\ lastVideoTime = -1
  /\ lastInferTime = 0
  /\ lastDetectionData = <<>>
  /\ selectedObjectType = filterType
  /\ intervalSelect = intervalSeconds
  /\ autoCaptureIntervalSeconds = intervalSeconds
  /\ detectionPeriods = startAutoCapture(intervalSeconds).detectionPeriods
  /\ lastObjectDetected = startAutoCapture(intervalSeconds).lastObjectDetected
  /\ currentDetectionStart = startAutoCapture(intervalSeconds).currentDetectionStart
  /\ lastCaptureTime = startAutoCapture(intervalSeconds).lastCaptureTime
  /\ smoothBoxes = NoBoxes
  /\ animationFrameId = 1
  /\ frames = {1}
  /\ suspended = <<>>
  /\ lastObserve = NoObserve
  /\ fireLog = <<>>
  /\ lastReset = NoReset
  /\ lastRender = NoRender
  /\ everEvicted = {}
  /\ scenario = scn
  /\ status = "Detection active"
  /\ responsePanel = "hidden"
  /\ captures = <<>>
  /\ timers = {}
  /\ uncaught = 0
  /\ lastEnded = NoEnded
  /\ calc = NoCalc

InitWatch ==
  \E filterType \in OBJECT_TYPE_OPTIONS :
    Started(0, 5, filterType, [kind |-> "watch", origin |-> 0])

NextWatch ==
  \/ advanceTime
  \/ loop
  \/ loopResume

SpecWatch == InitWatch /\ [][NextWatch]_vars

\* ------------------------------------------------------ presence scripts
\* Detection starts with the 10 s window at a half-second instant and the
\* detector then reports the person as the script prescribes.
InitScript ==
  \E start \in 1..ScriptMaxStart, kind \in Scripts, filterType \in OBJECT_TYPE_OPTIONS :
    Started(start * (MsPerSecond \div 2), 10, filterType,
            [kind |-> kind, origin |-> start * (MsPerSecond \div 2)])

NextScript ==
  \/ advanceTime
  \/ loop
  \/ loopResume

SpecScript == InitScript /\ [][NextScript]_vars

\* the continuous script from half a second after page load with the detector
\* loaded, and Stop, Start and the two selects used at any time
NextScriptReset ==
  \/ advanceTime
  \/ loop
  \/ loopResume
  \/ stopDetection
  \/ startDetection
  \/ onObjectFilterChange
  \/ onAutoCaptureIntervalChange

SpecScriptReset ==
  /\ Started(MsPerSecond \div 2, 10, "all",
             [kind |-> "continuous", origin |-> MsPerSecond \div 2])
  /\ [][NextScriptReset]_vars

\* ---------------------------------------------------------- render passes
\* The render part of a tick on its own, over boxes that move between frames.
BoxC == [originX |-> 0, originY |-> 0, width |-> 8, height |-> 8]
RenderFrames ==
  { <<>>,
    <<NoCategoryDet>>,
    <<Det("person", ScoreMid, BoxA)>>,
    <<Det("person", ScoreMid, BoxB)>>,
    <<Det("dog", ScoreMid, BoxA)>>,
    <<Det("person", ScoreMid, BoxA), Det("person", ScoreMid, BoxB)>>,
    <<Det("dog", ScoreMid, BoxC), NoCategoryDet, Det("person", ScoreMid, BoxC)>> }


InitRender ==
  /\ \E filterType \in OBJECT_TYPE_OPTIONS :
       Started(MsPerSecond, 0, filterType, [kind |-> "render", origin |-> 0])

\* "const result = await detector.detectForVideo(...); lastDetectionData =
\* drawDetections(...)" of one tick
render ==
  \E frame \in RenderFrames :
   \E drawn \in {drawDetections(frame, smoothBoxes, selectedObjectType, video)} :
        /\ lastRender.n < MaxRenders
        /\ lastDetectionData' = drawn.data
        /\ smoothBoxes' = drawn.boxes
        /\ recordRender(frame, drawn)
        /\ UNCHANGED <<clockVars, uiVars, trackVars, loopVars, lastObserve, fireLog,
                       lastReset, scenario, captureVars, calc>>

\* the window is resized: the view rectangle of the video changes
onResize ==
  /\ video' = IF video = LoopVideo
              THEN [videoWidth |-> 64, videoHeight |-> 48, viewW |-> 48, viewH |-> 24]
              ELSE LoopVideo
  /\ UNCHANGED <<clock, videoTime, uiVars, trackVars, loopVars, renderVars, histVars,
                 scenario, captureVars, calc>>

NextRender ==
  \/ render
  \/ onResize
  \/ onObjectFilterChange

SpecRender == InitRender /\ [][NextRender]_vars

\* ------------------------------------------------------ capture and analyze
\* how a runCaptureAndAnalyze call ended, kept as history
recordEnded(capture, outcome) ==
  lastEnded' = [outcome |-> outcome, stage |-> capture.stage,
                manual |-> capture.manual, wasRunning |-> running]

RemoveAt(seq, i) == SubSeq(seq, 1, i - 1) \o SubSeq(seq, i + 1, Len(seq))

\* click on the capture button
onCapture ==
  /\ Len(captures) + Cardinality(timers) < MaxCaptures
  /\ \E ready \in BOOLEAN :
       IF ready
       THEN /\ captures' = launchCapture(captures, TRUE)
            /\ UNCHANGED status
       ELSE /\ status' = "Camera not ready"
            /\ UNCHANGED captures
  /\ UNCHANGED <<clockVars, uiVars, trackVars, loopVars, renderVars, histVars, scenario,
                 responsePanel, timers, uncaught, lastEnded, calc>>

\* an await of runCaptureAndAnalyze rejects: the catch block, when the await is
\* inside the try
pipelineFails(i) ==
  /\ captures' = RemoveAt(captures, i)
  /\ IF caughtByPipeline(captures[i].stage)
     THEN \E h \in {handleAnalysisError(clock)} :
            /\ status' = h.status
            /\ responsePanel' = h.responsePanel
            /\ timers' = h.timers
            /\ recordEnded(captures[i], "failure")
            /\ UNCHANGED uncaught
     ELSE /\ uncaught' = uncaught + 1
          /\ recordEnded(captures[i], "escaped")
          /\ UNCHANGED <<status, responsePanel, timers>>

captureFailed_clearsCooldown(i) ==
  /\ pipelineFails(i)
  /\ lastCaptureTime' = 0
  /\ UNCHANGED <<detectionPeriods, lastObjectDetected, currentDetectionStart>>

\* the whole of the failed call's end: the catch block and nothing else, the
\* tracking state is left as the trigger set it
captureFailed(i) ==
  /\ pipelineFails(i)
  /\ UNCHANGED trackVars

\* captureScreenToBlobAndData settles; on success the call goes on to
\* requestAnalysis
captureSettles ==
  \E i \in 1..Len(captures), ok \in BOOLEAN :
    /\ captures[i].stage = "capturing"
    /\ IF ok
       THEN /\ captures' = [captures EXCEPT ![i].stage = "sending"]
            /\ status' = "Sending to API"
            /\ UNCHANGED <<responsePanel, timers, uncaught, lastEnded, trackVars>>
       ELSE captureFailed(i)
    /\ UNCHANGED <<clockVars, uiVars, loopVars, renderVars, histVars, scenario, calc>>

\* requestAnalysis settles: a body with an analysis, a body without one, or a
\* rejection (network failure, non-2xx status, unparsable body)
requestSettles ==
  \E i \in 1..Len(captures), outcome \in {"analysis", "noAnalysis", "error"} :
    /\ captures[i].stage = "sending"
    /\ IF outcome = "error"
       THEN captureFailed(i)
       ELSE \E h \in {handleAnalysisResponse(outcome = "analysis", clock)} :
              /\ captures' = RemoveAt(captures, i)
              /\ status' = h.status
              /\ responsePanel' = h.responsePanel
              /\ timers' = h.timers
              /\ recordEnded(captures[i], outcome)
              /\ UNCHANGED <<uncaught, trackVars>>
    /\ UNCHANGED <<clockVars, uiVars, loopVars, renderVars, histVars, scenario, calc>>

\* a setTimeout(setRunningStatus, delay) callback runs
timerFires ==
  \E t \in timers :
    /\ clock >= t.due
    /\ timers' = timers \ {t}
    /\ status' = setRunningStatus(running, status)
    /\ UNCHANGED <<clockVars, uiVars, trackVars, loopVars, renderVars, histVars, scenario,
                   responsePanel, captures, uncaught, lastEnded, calc>>

\* detection runs with the 5 s window and the person stays in view
InitCapture == Started(0, 5, "all", [kind |-> "capture", origin |-> 0])

NextCapture ==
  \/ advanceTime
  \/ loop
  \/ loopResume
  \/ stopDetection
  \/ onCapture
  \/ captureSettles
  \/ requestSettles
  \/ timerFires

SpecCapture == InitCapture /\ [][NextCapture]_vars

\* the same with time for a second trigger, the captures settling on their own

NextRetry ==
  \/ advanceTime
  \/ loop
  \/ loopResume
  \/ captureSettles
  \/ requestSettles

SpecRetry == Started(0, 5, "all", [kind |-> "retry", origin |-> 0]) /\ [][NextRetry]_vars

\* ------------------------------------------------- direct function calls
\* The geometry and smoothing functions called on their own, on inputs drawn
\* from small sets; calc records the arguments and the result of the call.
\* Each behaviour makes one call, or one run of repeated smoothing.
\* confidences passed to smoothBBox: detector scores and values beyond them
CallScores == {RInt(-1), Zero, ScoreMid, RInt(1), Two}

\* rects on the canvas, some with coordinates that are not binary fractions
RectA == Rect(RInt(8), RInt(4), RInt(16), RInt(12))
RectB == Rect(Rat(32, 3), Rat(16, 3), RInt(16), Rat(64, 3))
RectC == Rect(RInt(10), RInt(4), RInt(16), RInt(12))
SmoothKeys == {"person", "dog"}
SmoothMaps ==
  UNION { [keys -> {RectA, RectB}] : keys \in SUBSET SmoothKeys }

\* the accumulator of drawDetections before its first detection
emptyPass(boxes) == [boxes |-> boxes, data |-> <<>>, drawn |-> <<>>, currentKeys |-> {}]

\* smoothBBox, and the loop body of drawDetections around it, on a map that
\* may hold other keys
callSmoothBBox ==
  \E boxes \in SmoothMaps, key \in SmoothKeys, box \in {BoxA, BoxB},
     confidence \in CallScores :
   \E bbox \in {clampRect(mapRectFromVideoToCanvas(box, LoopVideo), LoopVideo)} :
    /\ calc = NoCalc
    /\ calc' = [op |-> "smoothBBox", boxes |-> boxes, key |-> key, bbox |-> bbox,
                confidence |-> confidence, det |-> Det(key, confidence, box),
                out |-> smoothBBox(boxes, key, bbox, confidence),
                pass |-> drawOne(emptyPass(boxes), Det(key, confidence, box), LoopVideo)]
    /\ UNCHANGED <<clockVars, uiVars, trackVars, loopVars, renderVars, histVars, scenario,
                   captureVars>>

\* applyDeadZone on a previous rect and one that differs from it by dq[f]
\* quarter pixels on field f
DeadZoneDeltas == {-9, -8, -7, 0, 7, 8}
moved(prev, dq) ==
  Rect(RAdd(prev.x, Rat(dq.x, 4)), RAdd(prev.y, Rat(dq.y, 4)),
       RAdd(prev.w, Rat(dq.w, 4)), RAdd(prev.h, Rat(dq.h, 4)))

callApplyDeadZone ==
  \E dq \in [{"x", "y", "w", "h"} -> DeadZoneDeltas] :
   \E curr \in {moved(RectA, dq)} :
    /\ calc = NoCalc
    /\ calc' = [op |-> "applyDeadZone", prev |-> RectA, dq |-> dq, curr |-> curr,
                out |-> applyDeadZone(RectA, curr, DEAD_ZONE_EPS)]
    /\ UNCHANGED <<clockVars, uiVars, trackVars, loopVars, renderVars, histVars, scenario,
                   captureVars>>

\* the first sighting of a key stores its rect; the key is then smoothed
\* toward a constant target with a constant confidence
startSmoothing ==
  \E start \in {RectA, RectB, RectC}, target \in {RectA, RectB, RectC},
     confidence \in {Zero, ScoreMid, RInt(1)} :
    /\ calc = NoCalc
    /\ calc' = [op |-> "converge", start |-> start, target |-> target,
                confidence |-> confidence, n |-> 0,
                boxes |-> smoothBBox(NoBoxes, "person", start, confidence).boxes]
    /\ UNCHANGED <<clockVars, uiVars, trackVars, loopVars, renderVars, histVars, scenario,
                   captureVars>>

smoothAgain ==
  /\ calc.op = "converge"
  /\ calc.n < MaxSmoothSteps
  /\ calc' = [calc EXCEPT !.n = @ + 1,
                          !.boxes = smoothBBox(calc.boxes, "person", calc.target,
                                               calc.confidence).boxes]
  /\ UNCHANGED <<clockVars, uiVars, trackVars, loopVars, renderVars, histVars, scenario,
                 captureVars>>

\* videos and view rectangles for the mapping; a view may be collapsed to 0
CalcVideos ==
  { [videoWidth |-> src[1], videoHeight |-> src[2], viewW |-> view[1], viewH |-> view[2]] :
      src \in {<<64, 48>>, <<640, 480>>, <<1920, 1080>>},
      view \in {<<32, 32>>, <<48, 24>>, <<250, 250>>, <<250, 126>>, <<0, 0>>, <<0, 32>>} }
FullBox(v) == [originX |-> 0, originY |-> 0, width |-> v.videoWidth, height |-> v.videoHeight]
CornerBox(v) ==
  [originX |-> v.videoWidth \div 2, originY |-> v.videoHeight \div 2,
   width |-> v.videoWidth \div 2, height |-> v.videoHeight \div 2]

\* mapRectFromVideoToCanvas, the clamp after it, and a whole drawDetections
\* pass over the one detection on an empty smoothing map
callMap ==
  \E v \in CalcVideos : \E box \in {FullBox(v), CornerBox(v), BoxA} :
   \E raw \in {mapRectFromVideoToCanvas(box, v)} :
    /\ calc = NoCalc
    /\ calc' = [op |-> "map", video |-> v, bbox |-> box, raw |-> raw,
                clamped |-> clampRect(raw, v),
                pass |-> drawDetections(<<Det("person", ScoreHalf, box)>>, NoBoxes, "all", v)]
    /\ UNCHANGED <<clockVars, uiVars, trackVars, loopVars, renderVars, histVars, scenario,
                   captureVars>>

\* checkObjectDetectionForAutoCapture called again and again with the 5 s
\* window, nowMs never decreasing, on the tracker as startAutoCapture leaves
\* it.  Next to the tracker the call is replayed on a second one, plain, whose
\* firings set lastCaptureTime but leave out the re-baseline.
callObserve ==
  \E isObjectDetected \in BOOLEAN, gap \in {0, 1000, 2500} :
    LET first == calc = NoCalc
        nowMs == IF first THEN gap ELSE calc.nowMs + gap
        res == checkObjectDetectionForAutoCapture(
                 IF first THEN startAutoCapture(5) ELSE calc.tracker,
                 nowMs, 5, TRUE, isObjectDetected)
        plain == IF first THEN startAutoCapture(5) ELSE calc.plain
        plainRes == checkObjectDetectionForAutoCapture(plain, nowMs, 5, TRUE,
                                                       isObjectDetected)
        seen == applyDetection(plain, nowMs, isObjectDetected)
    IN  /\ IF first THEN TRUE
           ELSE calc.op = "observe" /\ calc.n < MaxObserveCalls
        /\ calc' = [op |-> "observe", n |-> IF first THEN 1 ELSE calc.n + 1,
                    nowMs |-> nowMs, tracker |-> res.tracker,
                    fired |-> res.fired, total |-> res.total,
                    fires |-> Min(2, (IF first THEN 0 ELSE calc.fires)
                                       + (IF res.fired THEN 1 ELSE 0)),
                    plain |-> IF plainRes.fired
                              THEN [seen EXCEPT
                                      !.detectionPeriods =
                                         filterPeriods(@, nowMs - 5 * MsPerSecond),
                                      !.lastCaptureTime = nowMs]
                              ELSE plainRes.tracker,
                    plainFired |-> plainRes.fired, plainTotal |-> plainRes.total]
        /\ UNCHANGED <<clockVars, uiVars, trackVars, loopVars, renderVars, histVars,
                       scenario, captureVars>>

InitCalc == Started(0, 0, "all", [kind |-> "calc", origin |-> 0])

NextCalc ==
  \/ callSmoothBBox
  \/ callApplyDeadZone
  \/ startSmoothing
  \/ smoothAgain
  \/ callMap
  \/ callObserve

SpecCalc == InitCalc /\ [][NextCalc]_vars

\* ================================================================ claims
\* a step in which a suspended tick resumed and called
\* checkObjectDetectionForAutoCapture
ObserveStep == Len(suspended') < Len(suspended)

WindowMs == intervalSelect * MsPerSecond

\* ------------------------------------------------------------------- C1
\* C1: while watching with no reset in between, any two automatic firings
\* made by observe calls at times t1 < t2 are at least windowMs apart.
C1_FiringsOneWindowApart ==
  \A i, j \in 1..Len(fireLog) :
    fireLog[i] < fireLog[j] => fireLog[j] - fireLog[i] >= WindowMs

C1_Witness == Len(fireLog) >= 2

\* ------------------------------------------------------------------- C2
\* presence inside [nowMs - windowMs, nowMs] of one interval
ClippedMs(from, to, nowMs, windowMs) ==
  LET lo == Max(from, nowMs - windowMs)
      hi == Min(to, nowMs)
  IN  IF hi > lo THEN hi - lo ELSE 0

RECURSIVE SumClipped(_, _, _)
SumClipped(periods, nowMs, windowMs) ==
  IF periods = <<>> THEN 0
  ELSE ClippedMs(Head(periods).start, Head(periods).end, nowMs, windowMs)
         + SumClipped(Tail(periods), nowMs, windowMs)

\* totalPresentMs of the claim: every completed period and the open period of
\* the tracker tr, each clipped to the window
TotalPresentMs(tr, nowMs, windowMs) ==
  SumClipped(tr.detectionPeriods, nowMs, windowMs)
    + (IF tr.currentDetectionStart # Null
       THEN ClippedMs(tr.currentDetectionStart, nowMs, nowMs, windowMs) ELSE 0)

\* C2: an observe call in watching mode fires if and only if totalPresentMs is
\* at least 0.8 * windowMs and nowMs - lastCaptureTime >= windowMs; a firing
\* invokes capture exactly once and sets lastCaptureTime to nowMs.
C2_FiresIffThresholdAndCooldown ==
  [][ (ObserveStep /\ Watching) =>
        LET nowMs == lastObserve'.nowMs
            seen == applyDetection(Tracking, nowMs, lastObserve'.detected)
            due == /\ TotalPresentMs(seen, nowMs, WindowMs) * 10 >= 8 * WindowMs
                   /\ nowMs - lastCaptureTime >= WindowMs
        IN  /\ lastObserve'.fired <=> due
            /\ due => /\ fireLog' = Append(fireLog, nowMs)
                      /\ lastCaptureTime' = nowMs
            /\ ~due => /\ fireLog' = fireLog
                       /\ lastCaptureTime' = lastCaptureTime ]_vars

C2_Witness ==
  /\ lastObserve.fired
  /\ Len(detectionPeriods) >= 1
  /\ lastCaptureTime = lastObserve.nowMs

\* ------------------------------------------------------------------- C8
\* C8: a firing leaves the presence flag, the existence of the open period
\* and the presence inside the current window as they were right before it.
C8_FiringKeepsPresence ==
  [][ (ObserveStep /\ lastObserve'.fired) =>
        LET nowMs == lastObserve'.nowMs
            seen == applyDetection(Tracking, nowMs, lastObserve'.detected)
        IN  /\ lastObjectDetected' = seen.lastObjectDetected
            /\ (currentDetectionStart' = Null) <=> (seen.currentDetectionStart = Null)
            /\ TotalPresentMs(Tracking', nowMs, WindowMs) = lastObserve'.total
            /\ TotalPresentMs(Tracking', nowMs, WindowMs)
                 = TotalPresentMs(seen, nowMs, WindowMs) ]_vars

C8_Witness ==
  /\ lastObserve.fired
  /\ lastObjectDetected
  /\ currentDetectionStart # Null
  /\ detectionPeriods # <<>>
  /\ Len(fireLog) >= 2

\* ------------------------------------------------------------------- C9
\* C9: after every observe call in watching mode every completed period kept
\* in the list ends at or after nowMs - windowMs.
C9_KeptPeriodsEndInWindow ==
  [][ (ObserveStep /\ Watching) =>
        \A k \in 1..Len(detectionPeriods') :
          detectionPeriods'[k].end >= lastObserve'.nowMs - WindowMs ]_vars

\* a firing needs presence, so an empty tracker after one has had its
\* completed periods pruned
C9_Witness ==
  /\ Len(fireLog) >= 1
  /\ detectionPeriods = <<>>
  /\ currentDetectionStart = Null
  /\ lastObserve.total = 0

\* ------------------------------------------------------------------- C7
\* C7: an observe call made while auto-capture is disabled or detection is
\* not running clears the periods, the open period and the presence flag,
\* does not evaluate the window and does not fire.
C7_DisabledObserveResets ==
  [][ (ObserveStep /\ (intervalSelect = 0 \/ ~running)) =>
        /\ detectionPeriods' = <<>>
        /\ currentDetectionStart' = Null
        /\ ~lastObjectDetected'
        /\ lastObserve'.total = Null
        /\ ~lastObserve'.fired
        /\ fireLog' = fireLog
        /\ lastCaptureTime' = lastCaptureTime ]_vars

C7_Witness ==
  /\ ~running
  /\ intervalSelect > 0
  /\ lastObserve.nowMs > 0
  /\ lastObserve.detected

\* ------------------------------------------------------------------- C5
ChangePending == lastReset.kind \in {"class", "interval"}

\* C5: changing the watched class or the window length empties the completed
\* periods and clears the open-period marker and the presence flag, and the
\* very next observe call leaves the state and takes the trigger decision
\* that the first observe call of a freshly started tracker would.
C5_ChangeResetsTracking ==
  /\ [](ChangePending =>
          /\ detectionPeriods = <<>>
          /\ currentDetectionStart = Null
          /\ ~lastObjectDetected)
  /\ [][ (ObserveStep /\ ChangePending) =>
           LET fresh == checkObjectDetectionForAutoCapture(
                          startAutoCapture(intervalSelect), lastObserve'.nowMs,
                          intervalSelect, running, lastObserve'.detected)
           IN  /\ Tracking' = fresh.tracker
               /\ lastObserve'.fired = fresh.fired ]_vars

C5_Witness ==
  /\ lastObserve.afterReset = "class"
  /\ lastObserve.live
  /\ lastObserve.detected
  /\ Watching
  /\ currentDetectionStart = lastObserve.nowMs

\* ------------------------------------------------------------------- C6
\* C6: once stopDetection has returned and until detection is started again,
\* no tick is scheduled and the smoothing map, the last detection list and
\* the presence-tracking state are empty or zero.
C6_StoppedStaysCleared ==
  ~running =>
    /\ frames = {}
    /\ smoothBoxes = NoBoxes
    /\ lastDetectionData = <<>>
    /\ detectionPeriods = <<>>
    /\ currentDetectionStart = Null
    /\ ~lastObjectDetected
    /\ lastCaptureTime = 0

\* ------------------------------------------------------------------ C10
RenderStep == lastRender'.n = lastRender.n + 1

\* class labels carried by the detections of a frame
FrameKeys(frame) ==
  {frame[i].categories[1].categoryName : i \in {j \in 1..Len(frame) : hasCategory(frame[j])}}

\* the first detection of the frame that is drawn under key
FirstOf(frame, key) ==
  LET idx == {i \in 1..Len(frame) :
                hasCategory(frame[i]) /\ frame[i].categories[1].categoryName = key}
  IN  frame[CHOOSE i \in idx : \A j \in idx : i <= j]

FirstDrawn(drawn, key) ==
  LET idx == {i \in 1..Len(drawn) : drawn[i].key = key}
  IN  drawn[CHOOSE i \in idx : \A j \in idx : i <= j].rect

\* C10: a key absent from a frame's detections is absent from the smoothing
\* map right after that frame's render pass, and a key that comes back is
\* first drawn at its newly mapped and clamped rect.
C10_EvictedKeyRestarts ==
  [][ RenderStep =>
        /\ \A key \in CategoryNames :
             key \notin FrameKeys(lastRender'.frame) => key \notin DOMAIN smoothBoxes'
        /\ \A key \in lastRender'.reappeared :
             FirstDrawn(lastRender'.drawn, key)
               = clampRect(mapRectFromVideoToCanvas(
                             FirstOf(lastRender'.frame, key).boundingBox, video), video) ]_vars

C10_Witness ==
  /\ lastRender.reappeared # {}
  /\ "person" \in everEvicted
  /\ "person" \in DOMAIN smoothBoxes

\* ------------------------------------------------------------- C3 and C4
FireTimes == {fireLog[i] : i \in 1..Len(fireLog)}

\* the script has been observed up to t ms after its origin
ObservedUpTo(t) == lastObserve.nowMs >= scenario.origin + t

\* C3: with the 10 s window and presence from t = 0 on, the trigger fires at
\* the first observe call at or after t = 8000 and not again before t = 18000.
C3_ContinuousPresenceExample ==
  (scenario.kind \in {"continuous", "continuousThenAbsent"} /\ ObservedUpTo(8000)) =>
    /\ scenario.origin + 8000 \in FireTimes
    /\ \A t \in FireTimes : t < scenario.origin + 18000 => t = scenario.origin + 8000

\* C4: with the 10 s window and presence during [0, 3000) and [4000, 9000),
\* the trigger fires at the observe call at t = 9000 and at none before.
C4_IntermittentPresenceExample ==
  (scenario.kind = "intermittent" /\ ObservedUpTo(9000)) =>
    /\ scenario.origin + 9000 \in FireTimes
    /\ \A t \in FireTimes : t >= scenario.origin + 9000

\* ------------------------------------------------------------ C17 to C20
\* a step in which a runCaptureAndAnalyze call ended
EndStep == Len(captures') < Len(captures)

\* C17: a rejected await inside runCaptureAndAnalyze (failed frame capture,
\* network error, non-success response) ends the call in the failure branch:
\* the error is shown, nothing escapes to the caller, manual or automatic, and
\* the loop's state is untouched, so its pending ticks still run.
C17_FailuresAreCaught ==
  /\ [](uncaught = 0)
  /\ [][ (EndStep /\ lastEnded'.outcome \in {"failure", "escaped"}) =>
           /\ lastEnded'.outcome = "failure"
           /\ status' = "API Error"
           /\ responsePanel' = "error"
           /\ UNCHANGED <<loopVars, trackVars, renderVars>> ]_vars

\* both kinds of caller have seen a failed capture and the loop went on: the
\* automatic capture failed at frame capture and a later tick is scheduled
C17_Witness ==
  /\ lastEnded.outcome = "failure"
  /\ lastEnded.stage = "capturing"
  /\ ~lastEnded.manual
  /\ status = "API Error"
  /\ running
  /\ lastObserve.nowMs > lastCaptureTime
  /\ animationFrameId \in frames

\* C18: a call whose requestAnalysis settled ends either in the success branch
\* (analysis shown, status restored after 500 ms) or in the failure branch
\* (error shown, status restored after 3000 ms).
C18_EndsInOneOfTwoBranches ==
  [][ (EndStep /\ lastEnded'.stage = "sending") =>
        \/ /\ status' = "Analysis received"
           /\ responsePanel' = "analysis"
           /\ [due |-> clock + SUCCESS_DELAY_MS, delay |-> SUCCESS_DELAY_MS] \in timers'
        \/ /\ status' = "API Error"
           /\ responsePanel' = "error"
           /\ [due |-> clock + ERROR_DELAY_MS, delay |-> ERROR_DELAY_MS] \in timers' ]_vars

\* C19: while captures are pending and detection runs, the loop has a tick
\* scheduled or in inference; the tick that fires launches the capture (or
\* finds the camera not ready and skips it), re-baselines and schedules its
\* successor in one step, leaving the capture pending at its first await.
C19_CaptureDoesNotBlockLoop ==
  /\ []((running /\ captures # <<>>) => (frames # {} \/ suspended # <<>>))
  /\ [][ (ObserveStep /\ lastObserve'.fired) =>
           /\ \/ captures' = Append(captures, [stage |-> "capturing", manual |-> FALSE])
              \/ status' = "Camera not ready" /\ captures' = captures
           /\ lastCaptureTime' = lastObserve'.nowMs
           /\ animationFrameId' \in frames' ]_vars

\* an observe call made after the firing one, with that capture still pending
C19_Witness ==
  /\ running
  /\ lastCaptureTime > 0
  /\ lastObserve.nowMs > lastCaptureTime
  /\ \E i \in 1..Len(captures) : ~captures[i].manual

\* C20: stopDetection leaves the calls in flight alone, and what such a call
\* does afterwards (its awaits settling, its branch, its timer) changes neither
\* the loop, the running flag, the smoothing map nor the tracking state, and
\* never sets the status to "Detection active".
C20_LateCompletionIsInert ==
  /\ [](~running => status # "Detection active")
  /\ [][ (running /\ ~running') => captures' = captures ]_vars
  /\ [][ (~running /\ (captures' # captures \/ timers' # timers)
                   /\ Len(captures') <= Len(captures)) =>
           UNCHANGED <<loopVars, trackVars, renderVars>> ]_vars

\* the automatic capture was answered after the stop and its timer has run
C20_Witness ==
  /\ ~running
  /\ lastEnded.outcome = "analysis"
  /\ ~lastEnded.manual
  /\ ~lastEnded.wasRunning
  /\ timers = {}
  /\ status = "Analysis received"

\* ------------------------------------------------------------ C11 to C16
\* two maps that hold the same thing (a rect or nothing) under key
AgreeOn(key, a, b) ==
  /\ key \in DOMAIN a <=> key \in DOMAIN b
  /\ key \in DOMAIN a => a[key] = b[key]

\* C11: smoothBBox for key k, and the loop body of drawDetections around it,
\* leave the stored rect of every other key as it was, and return and store
\* for k what they return and store on any map that agrees on k.
C11_SmoothingIsPerKey ==
  calc.op = "smoothBBox" =>
    /\ DOMAIN calc.out.boxes = DOMAIN calc.boxes \cup {calc.key}
    /\ DOMAIN calc.pass.boxes = DOMAIN calc.boxes \cup {calc.key}
    /\ \A j \in DOMAIN calc.boxes \ {calc.key} :
         /\ calc.out.boxes[j] = calc.boxes[j]
         /\ calc.pass.boxes[j] = calc.boxes[j]
    /\ \A other \in SmoothMaps :
         AgreeOn(calc.key, other, calc.boxes) =>
           /\ smoothBBox(other, calc.key, calc.bbox, calc.confidence).rect = calc.out.rect
           /\ drawOne(emptyPass(other), calc.det, LoopVideo).boxes[calc.key]
                = calc.pass.boxes[calc.key]

\* a stored key was smoothed to a new rect while another key was stored
C11_Witness ==
  /\ calc.op = "smoothBBox"
  /\ DOMAIN calc.boxes = SmoothKeys
  /\ calc.out.rect # calc.boxes[calc.key]
  /\ calc.out.rect # calc.bbox
  /\ calc.boxes["person"] # calc.boxes["dog"]

Fields == {"x", "y", "w", "h"}

\* C12: each field of applyDeadZone(prev, new, epsilon) is prev's value when
\* new differs from prev by less than epsilon on that field and new's value
\* otherwise, whatever the other fields do; when all four differences are
\* below epsilon the result is prev itself.
C12_DeadZonePerField ==
  calc.op = "applyDeadZone" =>
    /\ \A f \in Fields :
         calc.out[f] = IF Abs(calc.dq[f]) < 4 * DEAD_ZONE_EPS
                       THEN calc.prev[f] ELSE calc.curr[f]
    /\ (\A f \in Fields : Abs(calc.dq[f]) < 4 * DEAD_ZONE_EPS) => calc.out = calc.prev

\* a call that kept one field, moved by just under epsilon, and took another,
\* moved by exactly epsilon
C12_Witness ==
  /\ calc.op = "applyDeadZone"
  /\ calc.dq.x = 7 /\ calc.out.x = calc.prev.x /\ calc.curr.x # calc.prev.x
  /\ calc.dq.y = -8 /\ calc.out.y = calc.curr.y /\ calc.curr.y # calc.prev.y

\* a step of repeated smoothing, and the rect stored for the key
SmoothStep == calc.op = "converge" /\ calc'.op = "converge" /\ calc'.n = calc.n + 1
Stored(c) == c.boxes["person"]

\* new lies strictly nearer to target than old, without passing it
Nearer(old, new, target) ==
  IF RLt(old, target) THEN RLt(old, new) /\ RLe(new, target)
  ELSE RLt(target, old) /\ RLt(new, old) /\ RLe(target, new)
NotFarther(old, new, target) == new = old \/ Nearer(old, new, target)
Within(value, target, units) == RLt(RAbs(RSub(target, value)), RInt(units))

One == RInt(1)

\* the steps after which a distance d, kept to the fraction keep on each
\* step, is below 1, and one more for rounding
RECURSIVE StepsToUnit(_, _)
StepsToUnit(d, keep) ==
  IF RLt(d, One) THEN 1 ELSE 1 + StepsToUnit(RMul(d, keep), keep)
LargestDistance(a, b) ==
  RMax(RMax(RAbs(RSub(a.x, b.x)), RAbs(RSub(a.y, b.y))),
       RMax(RAbs(RSub(a.w, b.w)), RAbs(RSub(a.h, b.h))))
StepsBound(c) ==
  StepsToUnit(LargestDistance(c.start, c.target), RSub(One, dynamicAlpha(c.confidence)))

\* C13 as stated: every step of repeated smoothing toward a constant target
\* brings the stored rect strictly nearer to the target, unless it already
\* equals the target.
C13_EveryStepStrictlyNearer ==
  [][ SmoothStep =>
        \/ Stored(calc) = calc.target
        \/ /\ \A f \in Fields : NotFarther(Stored(calc)[f], Stored(calc')[f], calc.target[f])
           /\ \E f \in Fields : Nearer(Stored(calc)[f], Stored(calc')[f], calc.target[f]) ]_vars

\* C13, amended: no step of repeated smoothing toward a constant target moves
\* a field away from the target or past it, a field that is 1 unit or more
\* from the target moves strictly nearer, and after the number of steps that
\* alpha and the largest initial distance determine every field is within 1
\* unit of the target.
C13_ConvergesToWithinOneUnit ==
  /\ [][ SmoothStep =>
           \A f \in Fields :
             /\ NotFarther(Stored(calc)[f], Stored(calc')[f], calc.target[f])
             /\ ~Within(Stored(calc)[f], calc.target[f], 1) =>
                  Nearer(Stored(calc)[f], Stored(calc')[f], calc.target[f]) ]_vars
  /\ []((calc.op = "converge" /\ calc.n >= StepsBound(calc)) =>
          \A f \in Fields : Within(Stored(calc)[f], calc.target[f], 1))

\* a run that began more than a unit from its target has reached the step
\* bound, and has not landed on the target
C13_Witness ==
  /\ calc.op = "converge"
  /\ calc.n = StepsBound(calc)
  /\ \E f \in Fields : ~Within(calc.start[f], calc.target[f], 1)
  /\ Stored(calc) # calc.target

\* the full source box was mapped into a view of positive size
MappedFullBox ==
  /\ calc.op = "map"
  /\ calc.bbox = FullBox(calc.video)
  /\ calc.video.viewW > 0 /\ calc.video.viewH > 0

\* the x axis needs the larger scale, or the y axis does
ScaleByWidth(v) == RLe(Rat(v.viewH, v.videoHeight), Rat(v.viewW, v.videoWidth))
ScaleByHeight(v) == RLe(Rat(v.viewW, v.videoWidth), Rat(v.viewH, v.videoHeight))

\* the mapped extent covers the display extent exactly from 0, or overflows
\* it by the same amount before and after
CoversExactly(origin, extent, display) ==
  origin = Zero /\ extent = RInt(display)
OverflowsEvenly(origin, extent, display) ==
  /\ RLe(RInt(display), extent)
  /\ origin = RNeg(RDiv(RSub(extent, RInt(display)), Two))

\* C14 as stated: the mapped full source box covers the display exactly on
\* the axis with the larger required scale and overflows it evenly on the
\* other axis.
C14_FullBoxCoversExactly ==
  MappedFullBox =>
    /\ ScaleByWidth(calc.video) =>
         /\ CoversExactly(calc.raw.x, calc.raw.w, calc.video.viewW)
         /\ OverflowsEvenly(calc.raw.y, calc.raw.h, calc.video.viewH)
    /\ ScaleByHeight(calc.video) =>
         /\ CoversExactly(calc.raw.y, calc.raw.h, calc.video.viewH)
         /\ OverflowsEvenly(calc.raw.x, calc.raw.w, calc.video.viewW)

\* four units of rounding, relative to the display extent
RoundingOf(display) == RMul(RInt(display), Fl(1, 1, 2 - MantissaBits))
CoversWithinRounding(origin, extent, display) ==
  /\ RLe(RAbs(origin), RoundingOf(display))
  /\ RLe(RAbs(RSub(extent, RInt(display))), RoundingOf(display))
OverflowsEvenlyWithinRounding(origin, extent, display) ==
  /\ RLe(RSub(RInt(display), RoundingOf(display)), extent)
  /\ origin = RNeg(RDiv(RSub(extent, RInt(display)), Two))

\* C14, amended: the mapped full source box starts at 0 and has the display
\* extent up to floating-point rounding on the axis with the larger required
\* scale; on the other axis it is at least as large as the display up to the
\* same rounding and its origin is minus half of its computed excess.
C14_FullBoxCoversWithinRounding ==
  MappedFullBox =>
    /\ ScaleByWidth(calc.video) =>
         /\ CoversWithinRounding(calc.raw.x, calc.raw.w, calc.video.viewW)
         /\ OverflowsEvenlyWithinRounding(calc.raw.y, calc.raw.h, calc.video.viewH)
    /\ ScaleByHeight(calc.video) =>
         /\ CoversWithinRounding(calc.raw.y, calc.raw.h, calc.video.viewH)
         /\ OverflowsEvenlyWithinRounding(calc.raw.x, calc.raw.w, calc.video.viewW)

\* a full box mapped by the width's scale, cropped above and below
C14_Witness ==
  /\ MappedFullBox
  /\ ScaleByWidth(calc.video) /\ ~ScaleByHeight(calc.video)
  /\ RLt(calc.raw.y, Zero)
  /\ RLt(RInt(calc.video.viewH), calc.raw.h)

\* C15: the rect the caller's clamp makes of a mapped rect lies inside the
\* display, and a pass over the one detection yields a record for it.
C15_ClampedRectInsideDisplay ==
  (calc.op = "map" /\ calc.video.viewW > 0 /\ calc.video.viewH > 0) =>
    /\ RLe(Zero, calc.clamped.x) /\ RLe(Zero, calc.clamped.y)
    /\ RLe(Zero, calc.clamped.w) /\ RLe(Zero, calc.clamped.h)
    /\ RLe(RAdd(calc.clamped.x, calc.clamped.w), RInt(calc.video.viewW))
    /\ RLe(RAdd(calc.clamped.y, calc.clamped.h), RInt(calc.video.viewH))
    /\ Len(calc.pass.data) = 1

\* C16: with a display dimension of 0 the pass over a detection is skipped:
\* it yields no record and stores nothing in the smoothing map.
C16_DegenerateViewSkipsRender ==
  (calc.op = "map" /\ (calc.video.viewW = 0 \/ calc.video.viewH = 0)) =>
    /\ calc.pass.data = <<>>
    /\ calc.pass.drawn = <<>>
    /\ calc.pass.boxes = NoBoxes

\* ------------------------------------------------------------ C21 to C30
\* a step in which startDetection reaches its call of loop(), and a step in
\* which a tick passes the throttle and awaits the detector
StartStep ==
  \/ startBtnDisabled' /\ ~startBtnDisabled
  \/ loadingStarts' < loadingStarts /\ running'
SuspendStep == Len(suspended') > Len(suspended)

\* C21: a tick awaits the detector only when the video time has changed and
\* the throttle interval has passed; render and observe run only in the step
\* in which such a tick resumes, observe on the list that render has just
\* returned; every other step of the loop leaves the smoothing map, the last
\* detection list and the presence state unchanged.
C21_ObserveOnlyOnFreshInference ==
  /\ [][ SuspendStep =>
           /\ videoTime # (IF StartStep THEN -1 ELSE lastVideoTime)
           /\ (clock - (IF StartStep THEN 0 ELSE lastInferTime)) * 12 >= 1000
           /\ suspended'[Len(suspended')].nowMs = clock ]_vars
  /\ [][ (renderVars' # renderVars \/ trackVars' # trackVars) =>
           \/ ObserveStep
           \/ StartStep
           \/ smoothBoxes' = NoBoxes
           \/ intervalSelect' # intervalSelect ]_vars
  /\ [][ ObserveStep =>
           /\ \E i \in 1..Len(suspended) : suspended[i].nowMs = lastObserve'.nowMs
           /\ lastObserve'.detected
                = isSelectedObjectTypeDetected(lastDetectionData', selectedObjectType) ]_vars

\* an observe call has found the object, and the next tick is scheduled at the
\* same instant, where the throttle gates it out
C21_Witness ==
  /\ running
  /\ lastObserve.detected
  /\ lastObserve.nowMs = clock
  /\ lastInferTime = clock /\ lastVideoTime = videoTime
  /\ clock > 0
  /\ suspended = <<>>
  /\ animationFrameId \in frames
  /\ lastDetectionData # <<>>

\* C22: from the moment a tick has read nowMs until its observe call has
\* returned, nothing but that tick writes the smoothing map or the presence
\* state.
C22_NoWriteDuringTick ==
  [][ (suspended # <<>> /\ ~ObserveStep) =>
        UNCHANGED <<smoothBoxes, detectionPeriods, lastObjectDetected,
                    currentDetectionStart>> ]_vars

\* the detections of a frame that carry a category
Labelled(frame) == SelectSeq(frame, LAMBDA det : Len(det.categories) > 0)

\* C23: a render pass over a frame gives what it gives over the same frame
\* without its category-less detections: the same records, the same smoothing
\* map and the same drawn rects; such a detection adds no record and no key,
\* and a frame of nothing else is not a presence.
C23_UnlabelledDetectionSkipped ==
  [][ RenderStep =>
        \E r \in {drawDetections(Labelled(lastRender'.frame), smoothBoxes,
                                  selectedObjectType, video)} :
          /\ lastDetectionData' = r.data
          /\ smoothBoxes' = r.boxes
          /\ lastRender'.drawn = r.drawn
          /\ Len(lastDetectionData') <= Len(Labelled(lastRender'.frame))
          /\ DOMAIN smoothBoxes' \subseteq
               {Labelled(lastRender'.frame)[j].categories[1].categoryName :
                  j \in 1..Len(Labelled(lastRender'.frame))}
          /\ Labelled(lastRender'.frame) = <<>> =>
               ~isSelectedObjectTypeDetected(lastDetectionData', selectedObjectType) ]_vars

\* a pass over a frame with a category-less detection between two others has
\* recorded the two others
C23_Witness ==
  /\ Len(lastRender.frame) = 3
  /\ Labelled(lastRender.frame) # lastRender.frame
  /\ Len(lastDetectionData) = 2
  /\ DOMAIN smoothBoxes = {"dog", "person"}

\* C24: however the capture of an automatic trigger ends, failed or skipped,
\* it is not tried again: a capture starts only in the observe call that
\* fires, the end of a capture leaves lastCaptureTime and the presence state
\* as they are, lastCaptureTime stays at the time of the latest firing, and
\* two firings are at least one window apart.
C24_NoRetryAfterFailure ==
  /\ [](fireLog # <<>> => lastCaptureTime = fireLog[Len(fireLog)])
  /\ [](\A i, j \in 1..Len(fireLog) : i < j => fireLog[j] - fireLog[i] >= WindowMs)
  /\ [][ EndStep => UNCHANGED trackVars ]_vars
  /\ [][ (captures' # captures /\ ~EndStep /\ Len(captures') > Len(captures)) =>
           (ObserveStep /\ lastObserve'.fired) ]_vars
  /\ [][ (ObserveStep /\ lastObserve'.fired) =>
           /\ lastCaptureTime' = lastObserve'.nowMs
           /\ captures' = captures => status' = "Camera not ready" ]_vars

\* the first trigger's capture has failed, and the second trigger has fired
\* one window after the first
C24_Witness ==
  /\ Len(fireLog) = 2
  /\ fireLog[2] = fireLog[1] + WindowMs
  /\ lastEnded.outcome = "failure"
  /\ ~lastEnded.manual
  /\ captures = <<[stage |-> "capturing", manual |-> FALSE]>>

\* ------------------------------------------------------------------ C25
\* the completed periods an observe call at nowMs keeps from before
KeptPeriods(nowMs) ==
  SelectSeq(detectionPeriods, LAMBDA period : period.end >= nowMs - WindowMs)

\* C25: in watching mode an observe call that sees the object after a call
\* that did not (or after a reset) sets the open start to nowMs; a call that
\* does not see it after a call that did appends exactly one period from the
\* open start to nowMs and clears the open marker; a call without a
\* transition neither opens nor closes a period.  The open marker is set
\* exactly while the last call saw the object.
C25_PeriodsOpenAndCloseOnTransitions ==
  /\ [](lastObjectDetected <=> currentDetectionStart # Null)
  /\ [][ (ObserveStep /\ Watching) =>
           LET nowMs == lastObserve'.nowMs
               present == lastObserve'.detected
           IN  /\ lastObjectDetected' = present
               /\ (present /\ ~lastObjectDetected) =>
                     /\ currentDetectionStart' = nowMs
                     /\ detectionPeriods' = KeptPeriods(nowMs)
               /\ (~present /\ lastObjectDetected) =>
                     /\ detectionPeriods' =
                          Append(KeptPeriods(nowMs),
                                 [start |-> currentDetectionStart, end |-> nowMs])
                     /\ currentDetectionStart' = Null
               /\ (present /\ lastObjectDetected) =>
                     /\ detectionPeriods' = KeptPeriods(nowMs)
                     /\ currentDetectionStart' # Null
                     /\ ~lastObserve'.fired => currentDetectionStart' = currentDetectionStart
               /\ (~present /\ ~lastObjectDetected) =>
                     /\ detectionPeriods' = KeptPeriods(nowMs)
                     /\ currentDetectionStart' = Null ]_vars

\* a period opened by one call has just been closed by a later one, and an
\* earlier completed period is still kept
C25_Witness ==
  /\ Watching
  /\ ~lastObserve.detected
  /\ lastObserve.total # Null
  /\ Len(detectionPeriods) >= 2
  /\ detectionPeriods[Len(detectionPeriods)].end = lastObserve.nowMs
  /\ detectionPeriods[Len(detectionPeriods)].start < lastObserve.nowMs
  /\ currentDetectionStart = Null

\* ------------------------------------------------------------------ C26
\* the object is in view at every observe call of the behaviour
UninterruptedPresence == scenario.kind \in {"continuous", "retry"}

\* C26: under uninterrupted presence, once a trigger has fired at time t an
\* observe call fires exactly when its nowMs is at least t + windowMs, so the
\* next trigger is the first observe call at or after t + windowMs; when it
\* fires, presence is still counted from the start of its window.
C26_NextTriggerOneWindowLater ==
  [][ (ObserveStep /\ UninterruptedPresence /\ fireLog # <<>>) =>
        LET nowMs == lastObserve'.nowMs
            t == fireLog[Len(fireLog)]
        IN  /\ lastObserve'.fired <=> nowMs >= t + WindowMs
            /\ lastObserve'.fired => /\ lastObserve'.total = WindowMs
                                     /\ currentDetectionStart' = nowMs - WindowMs ]_vars

\* the second trigger has fired one window after the first and has clamped
\* the open period, which began before the first trigger's window, forward
C26_Witness ==
  /\ scenario.kind = "continuous"
  /\ Len(fireLog) = 2
  /\ fireLog[2] = fireLog[1] + WindowMs
  /\ lastObserve.fired
  /\ lastObserve.nowMs = fireLog[2]
  /\ currentDetectionStart = fireLog[1]
  /\ scenario.origin < fireLog[1]

\* ------------------------------------------------------------------ C27
\* the detections of a frame that the pass draws, in order
Retained(frame) == Labelled(filterDetectionsByType(frame, selectedObjectType))
KeyOf(det) == det.categories[1].categoryName
Clamped(det) == clampRect(mapRectFromVideoToCanvas(det.boundingBox, video), video)

\* deadZone(prev, EMA(prev, new, confidence), epsilon), field by field
DeadZonedEma(prev, new, confidence) ==
  LET alpha == RMax(Rat(1, 10), RMin(Rat(9, 10),
                 RAdd(Rat(25, 100), RMul(confidence, Rat(4, 10)))))
      field(p, c) ==
        LET smoothed == RAdd(p, RMul(alpha, RSub(c, p)))
        IN  IF RLt(RAbs(RSub(smoothed, p)), RInt(2)) THEN p ELSE smoothed
  IN  [x |-> field(prev.x, new.x), y |-> field(prev.y, new.y),
       w |-> field(prev.w, new.w), h |-> field(prev.h, new.h)]

\* the earlier detections of the frame with the key of the j-th one
EarlierSameKey(dets, j) == {i \in 1..(j - 1) : KeyOf(dets[i]) = KeyOf(dets[j])}

\* C27 as stated: for a key already in the map, the rect stored after the
\* frame is deadZone(rect stored before the frame, EMA(rect stored before the
\* frame, new clamped rect, confidence), epsilon) for a detection of that key
\* in the frame, and that rect is what the frame draws.
C27_StoredIsStepFromFrameStart ==
  [][ RenderStep =>
        LET dets == Retained(lastRender'.frame)
        IN  \A key \in DOMAIN smoothBoxes \cap {KeyOf(dets[j]) : j \in 1..Len(dets)} :
              \E j \in 1..Len(dets) :
                /\ KeyOf(dets[j]) = key
                /\ smoothBoxes'[key] = DeadZonedEma(smoothBoxes[key], Clamped(dets[j]),
                                                    dets[j].categories[1].score)
                /\ lastRender'.drawn[j].rect = smoothBoxes'[key] ]_vars

\* C27 (amended): for each detection whose key is in the map when it is
\* processed, the rect drawn and reported for it is deadZone(P, EMA(P, new
\* clamped rect, confidence), epsilon), P being the rect stored for the key
\* right before that detection: the rect stored before the frame for the
\* key's first detection in the frame, the final rect of the key's previous
\* detection for a later one; the rect stored after the frame is the final
\* rect of the key's last detection, never the bare EMA value.
C27_StoredIsStepFromPreviousStored ==
  [][ RenderStep =>
        LET dets == Retained(lastRender'.frame)
            drawn == lastRender'.drawn
            data == lastDetectionData'
        IN  /\ Len(drawn) = Len(dets)
            /\ Len(data) = Len(dets)
            /\ \A j \in 1..Len(dets) :
                 LET key == KeyOf(dets[j])
                     earlier == EarlierSameKey(dets, j)
                     last == CHOOSE i \in earlier : \A k \in earlier : k <= i
                 IN  /\ drawn[j].key = key
                     /\ (earlier # {} \/ key \in DOMAIN smoothBoxes) =>
                           drawn[j].rect =
                             DeadZonedEma(IF earlier # {} THEN drawn[last].rect
                                          ELSE smoothBoxes[key],
                                          Clamped(dets[j]), dets[j].categories[1].score)
                     /\ (\A i \in (j + 1)..Len(dets) : KeyOf(dets[i]) # key) =>
                           smoothBoxes'[key] = drawn[j].rect
                     /\ <<data[j].x, data[j].y, data[j].width, data[j].height>>
                          = <<RRound(drawn[j].rect.x), RRound(drawn[j].rect.y),
                              RRound(drawn[j].rect.w), RRound(drawn[j].rect.h)>> ]_vars

\* a frame with two detections of a key already in the map has been drawn:
\* the second rect was smoothed from the first one's final rect, and neither
\* is the detection's own clamped rect
C27_Witness ==
  /\ lastRender.n >= 2
  /\ Len(lastRender.drawn) = 2
  /\ lastRender.drawn[1].key = lastRender.drawn[2].key
  /\ lastRender.drawn[1].rect # Clamped(lastRender.frame[1])
  /\ lastRender.drawn[2].rect # Clamped(lastRender.frame[2])
  /\ lastRender.drawn[2].rect # lastRender.drawn[1].rect
  /\ smoothBoxes[lastRender.drawn[2].key] = lastRender.drawn[2].rect

\* ------------------------------------------------------------------ C28
\* C28: smoothBBox for a key that is not in the map returns the new rect with
\* its four fields unchanged and stores it under the key, whatever the
\* confidence; the loop body of drawDetections then draws and stores it too.
C28_FirstSightingUnsmoothed ==
  (calc.op = "smoothBBox" /\ calc.key \notin DOMAIN calc.boxes) =>
    /\ \A f \in Fields : calc.out.rect[f] = calc.bbox[f]
    /\ DOMAIN calc.out.rect = Fields
    /\ calc.out.boxes[calc.key] = calc.bbox
    /\ calc.pass.boxes[calc.key] = calc.bbox
    /\ calc.pass.drawn[1].rect = calc.bbox

\* a first sighting with a confidence above 1, next to a stored other key
C28_Witness ==
  /\ calc.op = "smoothBBox"
  /\ calc.key \notin DOMAIN calc.boxes
  /\ DOMAIN calc.boxes # {}
  /\ calc.confidence = Two
  /\ calc.out.rect = calc.bbox
  /\ \A j \in DOMAIN calc.boxes : calc.boxes[j] # calc.bbox

\* ------------------------------------------------------------------ C29
\* clamp(baseAlpha + confidence * 0.4, 0.1, 0.9)
AlphaFor(confidence) ==
  LET raw == RAdd(Rat(25, 100), RMul(confidence, Rat(4, 10)))
  IN  IF RLt(raw, Rat(1, 10)) THEN Rat(1, 10)
      ELSE IF RLt(Rat(9, 10), raw) THEN Rat(9, 10) ELSE raw

Between(value, a, b) ==
  \/ RLe(a, value) /\ RLe(value, b)
  \/ RLe(b, value) /\ RLe(value, a)

\* C29: smoothBBox for a key that is in the map returns, for each of x, y, w
\* and h, prev + alpha * (new - prev) with alpha = clamp(baseAlpha +
\* confidence * 0.4, 0.1, 0.9), and stores that rect; alpha is within
\* [0.1, 0.9] and does not decrease when the confidence grows; every returned
\* field lies between prev's and new's value of that field.
C29_EmaWithClampedAlpha ==
  (calc.op = "smoothBBox" /\ calc.key \in DOMAIN calc.boxes) =>
    LET prev == calc.boxes[calc.key]
        alpha == AlphaFor(calc.confidence)
    IN  /\ \A f \in Fields :
             /\ calc.out.rect[f]
                  = RAdd(prev[f], RMul(alpha, RSub(calc.bbox[f], prev[f])))
             /\ Between(calc.out.rect[f], prev[f], calc.bbox[f])
        /\ calc.out.boxes[calc.key] = calc.out.rect
        /\ RLe(Rat(1, 10), alpha) /\ RLe(alpha, Rat(9, 10))
        /\ \A lower \in CallScores :
             RLe(lower, calc.confidence) => RLe(AlphaFor(lower), alpha)

\* a stored key smoothed with a confidence below 0: alpha is clamped to 0.1
\* and the rect moves a tenth of the way
C29_Witness ==
  /\ calc.op = "smoothBBox"
  /\ calc.key \in DOMAIN calc.boxes
  /\ calc.confidence = RInt(-1)
  /\ \E f \in Fields :
       /\ calc.out.rect[f] # calc.boxes[calc.key][f]
       /\ calc.out.rect[f] # calc.bbox[f]

\* ------------------------------------------------------------------ C30
\* n is the integer nearest to value, the upper one of two equally near
RoundedTo(n, value) ==
  /\ n \in Int
  /\ RLt(RSub(value, Rat(1, 2)), RInt(n))
  /\ RLe(RInt(n), RAdd(value, Rat(1, 2)))

\* C30: a render pass returns exactly one record per retained detection, in
\* the order of the detections in the frame; a record carries its detection's
\* label and score, its x, y, width and height are the final display rect
\* drawn for that detection rounded to integers, and its videoBbox is the
\* detection's source box as delivered.
C30_OneRecordPerDetectionInOrder ==
  [][ RenderStep =>
        LET dets == Retained(lastRender'.frame)
            data == lastDetectionData'
            drawn == lastRender'.drawn
        IN  /\ Len(data) = Len(dets)
            /\ \A j \in 1..Len(dets) :
                 /\ data[j].categoryName = dets[j].categories[1].categoryName
                 /\ data[j].score = dets[j].categories[1].score
                 /\ data[j].videoBbox = dets[j].boundingBox
                 /\ RoundedTo(data[j].x, drawn[j].rect.x)
                 /\ RoundedTo(data[j].y, drawn[j].rect.y)
                 /\ RoundedTo(data[j].width, drawn[j].rect.w)
                 /\ RoundedTo(data[j].height, drawn[j].rect.h)
                 /\ smoothBoxes'[data[j].categoryName] = drawn[j].rect
                      \/ \E i \in (j + 1)..Len(dets) :
                           data[i].categoryName = data[j].categoryName ]_vars

\* two records in detection order, for two detections with different source
\* boxes, whose display rects are not whole pixels
C30_Witness ==
  /\ lastRender.n >= 2
  /\ Len(lastDetectionData) = 2
  /\ Len(lastRender.drawn) = 2
  /\ lastDetectionData[1].videoBbox = BoxA
  /\ lastDetectionData[2].videoBbox = BoxB
  /\ RInt(lastDetectionData[1].y) # lastRender.drawn[1].rect.y
  /\ RInt(lastDetectionData[2].x) # lastRender.drawn[2].rect.x

\* ------------------------------------------------------------------ C31
\* C31: within one detection session, between a start and the next stop, two
\* consecutive inference runs are started at tick times at least
\* DETECTION_INTERVAL_MS apart and on different video times.  (running is
\* true and lastInferTime is not 0 exactly when an inference run was started
\* since the last start with no stop since.)
C31_InferenceRunsThrottled ==
  [][ (SuspendStep /\ running /\ lastInferTime # 0) =>
        /\ (clock - lastInferTime) * 12 >= 1000
        /\ videoTime # lastVideoTime ]_vars

\* ------------------------------------------------------------------ C32
\* C32: over a run of observe calls with non-decreasing nowMs, the tracker
\* that re-baselines at each firing and the tracker that does not fire at the
\* same calls, and compute the same presence total at every call.
C32_RebaselineKeepsDecisions ==
  calc.op = "observe" =>
    /\ calc.fired = calc.plainFired
    /\ calc.total = calc.plainTotal
    /\ calc.tracker.lastCaptureTime = calc.plain.lastCaptureTime
    /\ calc.tracker.lastObjectDetected = calc.plain.lastObjectDetected

\* a second firing, at which the two trackers have come apart: the open
\* period of the re-baselined one was clamped forward
C32_Witness ==
  /\ calc.op = "observe"
  /\ calc.fired
  /\ calc.fires = 2
  /\ calc.tracker # calc.plain
  /\ calc.tracker.currentDetectionStart > calc.plain.currentDetectionStart
  /\ calc.plain.currentDetectionStart # Null

\* ------------------------------------------------------------------ C33
\* C33: every completed period has start <= end, the completed periods are
\* in chronological order and do not overlap, and an open period starts no
\* earlier than the last completed period ends.
C33_PeriodsOrdered ==
  /\ \A i \in 1..Len(detectionPeriods) :
       detectionPeriods[i].start <= detectionPeriods[i].end
  /\ \A i, j \in 1..Len(detectionPeriods) :
       i < j => detectionPeriods[i].end <= detectionPeriods[j].start
  /\ (currentDetectionStart # Null /\ detectionPeriods # <<>>) =>
       detectionPeriods[Len(detectionPeriods)].end <= currentDetectionStart

\* ------------------------------------------------------------------ C34
\* C34: the total computed by an observe call in watching mode is between 0
\* and windowMs.
C34_TotalWithinWindow ==
  [][ (ObserveStep /\ lastObserve'.total # Null) =>
        (0 <= lastObserve'.total /\ lastObserve'.total <= WindowMs) ]_vars

\* ------------------------------------------------------------------ C35
\* a step that resets the tracking state: Start, Stop, or a change of the
\* object filter or of the interval
ResetStep == lastReset' # lastReset /\ lastReset'.kind # "none"

\* C35: in every state the presence flag is true exactly when the open-period
\* marker is set, so there is at most one open period and none while the
\* object is recorded as absent; every reset clears both together, and an
\* observe call in watching mode sets both to what it saw.
C35_FlagIffOpenPeriod ==
  /\ [](lastObjectDetected = (currentDetectionStart # Null))
  /\ [](currentDetectionStart # Null => currentDetectionStart >= 0)
  /\ [][ ResetStep => (~lastObjectDetected' /\ currentDetectionStart' = Null) ]_vars
  /\ [][ (ObserveStep /\ lastObserve'.total # Null) =>
           /\ lastObjectDetected' = lastObserve'.detected
           /\ (currentDetectionStart' # Null) = lastObserve'.detected ]_vars

\* the first observe call after a filter or interval change has opened a
\* period
C35_Witness ==
  /\ lastObserve.afterReset \in {"class", "interval"}
  /\ lastObserve.detected
  /\ lastObjectDetected
  /\ currentDetectionStart = lastObserve.nowMs
  /\ lastReset = NoReset

\* ------------------------------------------------------------------ C36
\* C36: at any time at most one loop chain is active: at most one tick is
\* pending as an animation-frame callback or suspended in the detector await.
C36_AtMostOneChain == Cardinality(frames) + Len(suspended) <= 1

\* ------------------------------------------------------------------ C37
\* a field that kept its value or moved by epsilon or more
KeptOrJumped(old, new) == new = old \/ RLe(RInt(2), RAbs(RSub(new, old)))

\* the retained detections of the frame that carry the key
WithKey(dets, key) == {j \in 1..Len(dets) : KeyOf(dets[j]) = key}

\* C37 as stated: between two frames in which a key is present each stored
\* field keeps its value or changes by epsilon or more, and under a target
\* with alpha * |target - stored| < epsilon on a field the field is kept.
C37_FrameKeepsOrJumps ==
  [][ RenderStep =>
        LET dets == Retained(lastRender'.frame)
        IN  \A key \in DOMAIN smoothBoxes \cap DOMAIN smoothBoxes' : \A f \in Fields :
              /\ KeptOrJumped(smoothBoxes[key][f], smoothBoxes'[key][f])
              /\ \A j \in WithKey(dets, key) :
                   (/\ Cardinality(WithKey(dets, key)) = 1
                    /\ RLt(RMul(AlphaFor(dets[j].categories[1].score),
                                RAbs(RSub(Clamped(dets[j])[f], smoothBoxes[key][f]))),
                           RInt(2)))
                     => smoothBoxes'[key][f] = smoothBoxes[key][f] ]_vars

\* C37 (amended): each detection of a stored key leaves each field of the
\* stored rect at its value or moves it by epsilon or more, measured as the
\* code measures it; the field is kept exactly when the EMA value computed
\* for it differs from the stored value by less than epsilon; and a field
\* kept by a frame with one detection of the key is kept again, at the same
\* distance from the target, when the same frame is rendered again.
C37_DetectionKeepsOrJumps ==
  [][ RenderStep =>
        \E dets \in {Retained(lastRender'.frame)} :
          /\ \A j \in 1..Len(dets) :
               LET key == KeyOf(dets[j])
                   earlier == EarlierSameKey(dets, j)
                   last == CHOOSE i \in earlier : \A k \in earlier : k <= i
               IN  (earlier # {} \/ key \in DOMAIN smoothBoxes) =>
                     \E before \in {IF earlier # {} THEN lastRender'.drawn[last].rect
                                     ELSE smoothBoxes[key]},
                        target \in {Clamped(dets[j])},
                        alpha \in {AlphaFor(dets[j].categories[1].score)},
                        after \in {lastRender'.drawn[j].rect} :
                       \A f \in Fields :
                         \E smoothed \in {RAdd(before[f],
                                               RMul(alpha, RSub(target[f], before[f])))} :
                           /\ KeptOrJumped(before[f], after[f])
                           /\ IF RLt(RAbs(RSub(smoothed, before[f])), RInt(2))
                              THEN after[f] = before[f]
                              ELSE after[f] = smoothed
          /\ \E again \in {drawDetections(lastRender'.frame, smoothBoxes',
                                          selectedObjectType, video)} :
               \A key \in DOMAIN smoothBoxes \cap DOMAIN smoothBoxes' :
                 Cardinality(WithKey(dets, key)) = 1 =>
                   \A f \in Fields :
                     smoothBoxes'[key][f] = smoothBoxes[key][f]
                       => again.boxes[key][f] = smoothBoxes'[key][f] ]_vars

\* a frame has moved one field of a stored rect by epsilon or more and kept
\* another one that is not at its target
C37_Witness ==
  /\ lastRender.n >= 2
  /\ Len(lastRender.drawn) = 1
  /\ \E f, g \in Fields :
       LET rect == lastRender.drawn[1].rect
           target == Clamped(lastRender.frame[1])
       IN  /\ rect[f] # target[f]
           /\ RLt(RAbs(RSub(target[f], rect[f])), RInt(2))
           /\ rect[g] # target[g]
           /\ RLe(RInt(2), RAbs(RSub(target[g], rect[g])))

\* ------------------------------------------------------------------ C38
\* the rect held for a key once the first j retained detections of a pass
\* have been processed, as a set: empty while the key has no entry
RECURSIVE KeyRectAfter(_, _, _, _)
KeyRectAfter(boxes, dets, key, j) ==
  IF j = 0 THEN (IF key \in DOMAIN boxes THEN {boxes[key]} ELSE {})
  ELSE LET held == KeyRectAfter(boxes, dets, key, j - 1)
       IN  IF KeyOf(dets[j]) # key THEN held
           ELSE IF held = {} THEN {Clamped(dets[j])}
           ELSE {DeadZonedEma(rect, Clamped(dets[j]), dets[j].categories[1].score) :
                   rect \in held}

\* C38: after every render pass the keys of the smoothing map are exactly the
\* class labels of the frame's retained detections (filter passed, category
\* present); every retained detection yields one record and one drawn rect,
\* and detections of one class share the key's stored rect, which takes one
\* step per such detection in detection order.
C38_KeysAreRetainedLabels ==
  [][ RenderStep =>
        \E dets \in {Retained(lastRender'.frame)} :
          /\ DOMAIN smoothBoxes' = {KeyOf(dets[j]) : j \in 1..Len(dets)}
          /\ Len(lastDetectionData') = Len(dets)
          /\ Len(lastRender'.drawn) = Len(dets)
          /\ \A j \in 1..Len(dets) :
               /\ lastDetectionData'[j].categoryName = KeyOf(dets[j])
               /\ {lastRender'.drawn[j].rect}
                    = KeyRectAfter(smoothBoxes, dets, KeyOf(dets[j]), j)
          /\ \A key \in DOMAIN smoothBoxes' :
               {smoothBoxes'[key]} = KeyRectAfter(smoothBoxes, dets, key, Len(dets)) ]_vars

\* two detections of one class were drawn from one key, which took two steps,
\* in a pass that left only that key although another class was held before
C38_Witness ==
  /\ lastRender.n >= 2
  /\ Len(lastRender.drawn) = 2
  /\ Len(lastDetectionData) = 2
  /\ DOMAIN smoothBoxes = {lastRender.drawn[1].key}
  /\ lastRender.drawn[2].key = lastRender.drawn[1].key
  /\ lastRender.drawn[2].rect # lastRender.drawn[1].rect
  /\ everEvicted \ DOMAIN smoothBoxes # {}

====
